---- MODULE Spec2Model ----
(***************************************************************************)
(* Crawl driver, dedup state store and download/commit pipeline of         *)
(* scrape.py, as one sequential state machine.                             *)
(*                                                                         *)
(* The program is single-threaded; pc is the position of the one control   *)
(* flow.  Everything outside the process (the site's pages, the backend,   *)
(* ffprobe, the SMB share, the state file's disk) is an input chosen with  *)
(* \E at the step that consults it.                                        *)
(*                                                                         *)
(* The selenium sessions are numbered in the order they are created;       *)
(* sessions[i] says whether session i is still running.  main's try /      *)
(* except / finally is part of the step that leaves the processing block.  *)
(*                                                                         *)
(* construct_filename and match_url_to_mode are pure functions; each has a *)
(* specification of its own that draws the inputs and runs its loop.       *)
(*                                                                         *)
(* Not modelled: a failing read in load_state (its except branch), the     *)
(* sidecar .nfo files, m3u8_mode, the VPN's start and new_node actions.    *)
(***************************************************************************)
EXTENDS Integers, Sequences, FiniteSets, TLC

\* ---------------------------------------------------------------- bounds
Urls == {"u1", "u2"}          \* leaf URLs a listing or feed can carry
TopUrl == "u0"                \* the URL given on the command line
AllUrls == Urls \cup {TopUrl}
NoUrl == "nokey"              \* an item with neither 'url' nor 'video_key'
MaxItems == 2                 \* items on one listing page / entries of a feed
MaxStart == 2                 \* largest --page page number
MaxOffset == 2                \* largest --page video offset
MaxCap == 2                   \* largest configured max_pages
SitePages == 3                \* pages of a listing that carry items
NoCap == 99                   \* float('inf'): no max_pages configured
BadKey == "badkey"            \* an item with a 'video_key' the video template
                              \* cannot be rendered with
NoneUrl == "None"             \* construct_url's None, passed on as a URL
MaxSessions == 3              \* selenium sessions one run can create
MinBytesPerSecond == 10240    \* get_video_metadata: the least bytes per second
NameMax == 255                \* construct_filename: the byte limit of a name
UniqueIdLen == 7              \* construct_filename: '_' and six characters
MaxElements == 3              \* elements one selector matches
MaxWidth == 3                 \* bytes of the widest character of a title
MaxIter == 30                 \* turns of the re-trim loop that are followed

\* ------------------------------------------------------------- helpers
Range(s) == {s[i] : i \in 1..Len(s)}

RECURSIVE Reverse(_)
Reverse(s) == IF s = <<>> THEN <<>> ELSE Append(Reverse(Tail(s)), Head(s))

IsPrefix(s, t) == Len(s) <= Len(t) /\ SubSeq(t, 1, Len(s)) = s

NoDup(s) == \A i, j \in 1..Len(s) : s[i] = s[j] => i = j

SeqsUpTo(S, n) == UNION {[1..k -> S] : k \in 1..n}

\* available_modes of the site, in declaration order
ModeOrder == <<"search", "rss", "video", "tag">>

\* ---------------------------------------------------------- file contents
\* "none": no file.  old_*: a file that was there when the run started.
\* new_*: bytes written by a backend in this run.  *_ok passes ffprobe and
\* the bytes-per-second sanity check, *_bad does not.
Contents == {"none", "old_ok", "old_bad", "new_ok", "new_bad"}

VARIABLES
  cfg,          \* command line and site/general configuration (read-only)
  pc,           \* position of the control flow
  modeIdx,      \* process_url fallback loop: index into ModeOrder
  trav,         \* who called process_video_page: "list", "rss", "mode", "-"
  url,          \* effective_url / constructed_url: where it came from
  page_num,     \* current_page_num (0 models None)
  video_offset, \* current_video_offset
  items,        \* video_elements / entries of the page being processed
  idx,          \* loop index i (1-based)
  psucc,        \* process_list_page / process_rss_feed: success
  success,      \* process_url: success
  cur,          \* process_video_page: original_url
  vsucc,        \* process_video_page: success
  dl,           \* download_file: backend outcome, then its result
  state_set,    \* the in-memory dedup set
  once_set,     \* history: the dedup set of a caller that never reloads it
  stateFile,    \* lines of the .state file
  fs,           \* per leaf URL: hidden temp file, final path, SMB share
  handled,      \* history: URLs whose download and commit completed
  lastFetched,  \* history: page_num of the latest fetch of this traversal
  nFetch,       \* history: list pages fetched in this traversal
  runFetch,     \* history: list pages fetched in this run (capped at 2)
  finAtCall,    \* history: final path content when download_file was called
  leaf,         \* history: what the step of process_video_page just taken
                \* found: soup, should_ignore_video's answer
  nextSrc,      \* history: how the last next-page URL was computed
  fallbackCalled, \* history: process_fallback_download was invoked
  attempted,    \* history: the modes the fallback loop has started, in order
  pubdate,      \* feed: publication time of each entry of items
  sessions,     \* per selenium session created so far: still running
  selenium_driver, \* general_config['selenium_driver'] (0: key absent)
  list_driver,  \* process_list_page: driver (0: None)
  vp_driver,    \* process_video_page: driver (0: None)
  exitCause,    \* how main left its try block ("-" while inside)
  exitStatus,   \* the process's exit status (-1 while running)
  vpnStopRun,   \* handle_vpn(general_config, 'stop') has been called
  fname,        \* construct_filename: its inputs and locals
  match,        \* match_url_to_mode: its inputs and locals
  call          \* the other functions run alone: inputs and locals

\* the selenium session
sess == <<sessions, selenium_driver, list_driver, vp_driver>>

\* main's exit
run == <<exitCause, exitStatus, vpnStopRun>>

\* the pure functions' own state
fnvars == <<fname, match, call>>

\* the crawl's state
crawl == <<cfg, pc, modeIdx, trav, url, page_num, video_offset, items, idx,
           psucc, success, cur, vsucc, dl, state_set, once_set, stateFile, fs, handled,
           lastFetched, nFetch, runFetch, finAtCall, leaf, nextSrc, fallbackCalled,
           attempted, pubdate, sess, run>>

vars == <<cfg, pc, modeIdx, trav, url, page_num, video_offset, items, idx,
          psucc, success, cur, vsucc, dl, state_set, once_set, stateFile, fs, handled,
          lastFetched, nFetch, runFetch, finAtCall, leaf, nextSrc, fallbackCalled,
          attempted, pubdate, sessions, selenium_driver, list_driver,
          vp_driver,
          exitCause, exitStatus, vpnStopRun, fname, match, call>>

\* ------------------------------------------------------- configuration
CleanFile == [tmp |-> "none", fin |-> "none", smb |-> FALSE]

\* files found when the run starts: leftovers of earlier runs for u1
Fs0(t, f, s) == [u \in AllUrls |->
                   IF u = "u1" THEN [tmp |-> t, fin |-> f, smb |-> s]
                   ELSE CleanFile]

\* site: the leaf URLs the site's listings and feed carry (BadKey: some
\* items carry only a 'video_key' and the video template references a field
\* other than {video}).
\* feed: the order in which the site's feed lists its entries.
\* selenium: use_selenium of the site; selenium_available: the import of
\* the selenium libraries succeeded (SELENIUM_AVAILABLE).
\* m3u8_mode: the site's m3u8_mode.
\* wrap: a request beyond the last page of a listing is answered with a page
\* of the listing again (its last page, or the page a "next" link that
\* points backwards leads to) and not with an error or an empty page.
\* paged: url_pattern_pages is absent ("none"), renders ("ok") or references
\* an unbound field ("broken").  mode_max / scraper_max: max_pages of the
\* mode and of list_scraper.pagination, 0 when absent.
BaseCfg == [entry |-> "url_list", site |-> {"u1"}, sink |-> "local",
            overwrite |-> FALSE, re_nfo |-> FALSE, apply_state |-> FALSE,
            start |-> 1, offset |-> 0, mode_max |-> 2, scraper_max |-> 0,
            paged |-> "ok", next_page |-> FALSE, file0 |-> <<>>,
            fs0 |-> Fs0("none", "none", FALSE),
            feed |-> "newest_first", selenium |-> FALSE,
            selenium_available |-> TRUE, wrap |-> FALSE,
            m3u8_mode |-> FALSE]

Entries == {"url_list", "url_rss", "url_video", "url_nomatch", "multi_list"}

\* leftovers of earlier runs, per sink
LeftoversOf(k) ==
  {Fs0("none", "none", FALSE), Fs0("old_bad", "none", FALSE),
   Fs0("none", "old_ok", FALSE), Fs0("none", "old_bad", FALSE)}
  \cup (IF k = "smb"
          THEN {Fs0("none", "none", TRUE), Fs0("none", "old_ok", TRUE)}
          ELSE {})

\* the sink, the overwrite flag and the files on disk vary
DownloadConfigs ==
  { [BaseCfg EXCEPT !.entry = e, !.sink = c[1], !.overwrite = o,
                    !.fs0 = c[2]] :
      e \in {"url_video", "url_list"}, o \in BOOLEAN,
      c \in {d \in {"smb", "local"} \X LeftoversOf("smb") :
               d[2] \in LeftoversOf(d[1])} }

\* the entry point, the flags and the dedup store vary
DedupConfigs ==
  { [BaseCfg EXCEPT !.entry = e, !.sink = c[1], !.overwrite = o,
                    !.re_nfo = n, !.apply_state = c[2], !.file0 = f0,
                    !.fs0 = Fs0("none",
                                IF f0 # <<>> /\ c[1] = "local" THEN "old_ok"
                                ELSE "none",
                                f0 # <<>> /\ c[1] = "smb")] :
      e \in Entries, o \in BOOLEAN, n \in BOOLEAN,
      c \in {<<"smb", FALSE>>, <<"smb", TRUE>>, <<"local", FALSE>>},
      f0 \in {<<>>, <<"u1">>} }

\* the site carries two leaf URLs
TwoUrlConfigs ==
  { [BaseCfg EXCEPT !.entry = e, !.site = Urls, !.sink = k,
                    !.overwrite = o] :
      e \in {"url_list", "url_rss", "multi_list"}, k \in {"smb", "local"},
      o \in BOOLEAN }

CommitConfigs == DownloadConfigs \cup DedupConfigs \cup TwoUrlConfigs

\* the pagination cursor and the pagination rules vary
PagingConfigs ==
  { [BaseCfg EXCEPT !.entry = e, !.sink = "smb", !.start = p, !.offset = k,
                    !.mode_max = m[1], !.scraper_max = m[2],
                    !.paged = g[1], !.next_page = g[2]] :
      e \in {"url_list", "url_nomatch", "multi_list"},
      p \in 1..MaxStart, k \in 0..MaxOffset,
      m \in {x \in (0..MaxCap) \X {0, 1} : x[2] = 1 => x[1] \in {0, MaxCap}},
      g \in {<<"none", FALSE>>, <<"none", TRUE>>, <<"ok", TRUE>>,
             <<"broken", TRUE>>} }

\* the order of the feed varies
FeedConfigs ==
  { [BaseCfg EXCEPT !.entry = e, !.site = Urls, !.feed = f] :
      e \in {"url_rss", "url_nomatch"},
      f \in {"newest_first", "oldest_first", "unordered"} }

\* some items of the listings have a leaf URL that cannot be built
BuildConfigs ==
  { [BaseCfg EXCEPT !.entry = e, !.site = {"u1", BadKey}, !.sink = k,
                    !.paged = "none", !.next_page = TRUE] :
      e \in {"url_list", "url_nomatch", "multi_list"},
      k \in {"smb", "local"} }

\* the site is fetched with selenium
SessionConfigs ==
  { [BaseCfg EXCEPT !.entry = e, !.selenium = TRUE,
                    !.selenium_available = a, !.sink = "smb"] :
      e \in Entries, a \in BOOLEAN }

\* the site serves segmented streams and is fetched with selenium
StreamConfigs ==
  { [BaseCfg EXCEPT !.entry = e, !.selenium = TRUE, !.m3u8_mode = TRUE,
                    !.sink = c[1], !.apply_state = c[2]] :
      e \in {"url_video", "url_list"},
      c \in {<<"smb", TRUE>>, <<"local", FALSE>>} }

RunConfigs ==
  FeedConfigs \cup BuildConfigs \cup SessionConfigs \cup StreamConfigs

\* the site answers beyond its last page or not; capped and uncapped modes
WrapConfigs ==
  { [BaseCfg EXCEPT !.entry = e, !.start = p, !.mode_max = m,
                    !.paged = g, !.next_page = TRUE, !.wrap = w,
                    !.sink = "smb", !.apply_state = TRUE] :
      e \in {"url_list", "url_nomatch", "multi_list"},
      p \in 1..MaxStart, m \in {0, MaxCap}, g \in {"none", "ok"},
      w \in BOOLEAN }

Configs == CommitConfigs \cup PagingConfigs \cup RunConfigs \cup WrapConfigs

\* mode_config.get('max_pages', scraper_pagination.get('max_pages', inf))
max_pages(c) == IF c.mode_max # 0 THEN c.mode_max
                ELSE IF c.scraper_max # 0 THEN c.scraper_max ELSE NoCap

\* the step just taken was not the first one of process_video_page
NoLeaf == [soup |-> "-", ignore |-> FALSE]

InitWith(C) ==
  /\ cfg \in C
  /\ pc = "main"
  /\ modeIdx = 0
  /\ trav = "-"
  /\ url = "none"
  /\ page_num = 0
  /\ video_offset = 0
  /\ items = <<>>
  /\ idx = 0
  /\ psucc = FALSE
  /\ success = FALSE
  /\ cur = "-"
  /\ vsucc = FALSE
  /\ dl = "-"
  /\ stateFile = cfg.file0
  /\ state_set = Range(cfg.file0)
  /\ once_set = Range(cfg.file0)
  /\ fs = cfg.fs0
  /\ handled = {}
  /\ lastFetched = 0
  /\ nFetch = 0
  /\ runFetch = 0
  /\ finAtCall = "none"
  /\ leaf = NoLeaf
  /\ nextSrc = "-"
  /\ fallbackCalled = FALSE
  /\ attempted = <<>>
  /\ pubdate = <<>>
  /\ sessions = <<>>
  /\ selenium_driver = 0
  /\ list_driver = 0
  /\ vp_driver = 0
  /\ exitCause = "-"
  /\ exitStatus = -1
  /\ vpnStopRun = FALSE

\* construct_filename / match_url_to_mode have not been called
FnIdle ==
  /\ fname = [at |-> "idle"]
  /\ match = [at |-> "idle"]
  /\ call = [at |-> "idle"]

Init == InitWith(PagingConfigs) /\ FnIdle

InitCommit == InitWith(CommitConfigs) /\ FnIdle

InitRun == InitWith(RunConfigs) /\ FnIdle

InitWrap == InitWith(WrapConfigs) /\ FnIdle

\* ------------------------------------------------------ pure functions
is_url_processed(u, set) == u \in set

\* set(line.strip() for line in f if line.strip())
load_state(file) == Range(file)

\* open(STATE_FILE, 'a'); f.write(url + "\n"); a failing write is logged
\* and swallowed
save_state(file, u, written) == IF written THEN Append(file, u) ELSE file

\* ffprobe plus the bytes-per-second sanity check: info or None
get_video_metadata(c) == c \in {"old_ok", "new_ok"}

\* getAttributes succeeds; a failed connection reads as "not there"
file_exists_on_smb(present, conn) == conn /\ present

\* presence of the file on the share after upload_to_smb
upload_to_smb(present, overwrite, conn, stored) ==
  IF ~conn THEN present
  ELSE IF ~overwrite /\ present THEN present
  ELSE IF stored THEN TRUE ELSE present

\* variant: the negation of the flag test is lost
ShouldSkip_flags_inverted(u, set, overwrite, new_nfo) ==
  is_url_processed(u, set) /\ (overwrite \/ new_nfo)

\* list page and feed: skip an item that is already in the dedup set
ShouldSkip(u, set, overwrite, new_nfo) ==
  is_url_processed(u, set) /\ ~(overwrite \/ new_nfo)

\* variant: the URL is appended whenever the item succeeded
ShouldRecord_unguarded(ok, u, set) == ok

\* process_video_page: if success and not is_url_processed(...)
ShouldRecord(ok, u, set) == ok /\ ~is_url_processed(u, set)

\* variant: the cap test is strict
AtCap_strict(p, cap) == p > cap

\* process_list_page: if page_num >= max_pages
AtCap(p, cap) == p >= cap

\* variant: the page number is returned unchanged
NextPageNumber_same(p) == p

\* process_list_page: return next_url, page_num + 1, success
NextPageNumber(p) == p + 1

\* variant: the reset is missing
OffsetAfterPage_kept(off) == off

\* the callers' "current_video_offset = 0  # Reset after first page"
OffsetAfterPage(off) == 0

\* variant: a template that fails to render falls through to the next link
NextUrl_fallthrough(paged, next_page, found) ==
  IF paged = "ok" THEN "template"
  ELSE IF next_page /\ found THEN "link"
  ELSE "none"

\* process_list_page: the next URL. paged: url_pattern_pages absent, renders,
\* or references an unbound field (construct_url returns None);
\* next_page: pagination.next_page configured; found: the selector matched
\* an element that carries the attribute
NextUrl(paged, next_page, found) ==
  IF paged = "ok" THEN "template"
  ELSE IF paged = "broken" THEN "none"
  ELSE IF next_page /\ found THEN "link"
  ELSE "none"

\* variant: the temp file is renamed without being probed
download_file_unprobed(res, t, f) ==
  IF res = "ok" /\ t # "none"
    THEN [ok |-> TRUE, why |-> "promoted", tmp |-> "none", fin |-> t]
    ELSE [ok |-> FALSE, why |-> "failed", tmp |-> "none", fin |-> f]

\* variant: a rejected temp file is not removed
download_file_keeps_rejected(res, t, f) ==
  IF res = "raise"
    THEN [ok |-> FALSE, why |-> "raised", tmp |-> "none", fin |-> f]
  ELSE IF res = "ok" /\ t # "none"
    THEN IF get_video_metadata(t)
           THEN [ok |-> TRUE, why |-> "promoted", tmp |-> "none", fin |-> t]
           ELSE [ok |-> FALSE, why |-> "rejected", tmp |-> t, fin |-> f]
  ELSE IF res # "ok"
    THEN [ok |-> FALSE, why |-> "failed", tmp |-> "none", fin |-> f]
  ELSE [ok |-> FALSE, why |-> "missing", tmp |-> t, fin |-> f]

\* download_file after the backend returned: res is the backend's outcome,
\* t the hidden temp file, f the final path.  Result: reported success,
\* outcome class, temp file and final path afterwards.
download_file(res, t, f) ==
  IF res = "raise"
    THEN [ok |-> FALSE, why |-> "raised", tmp |-> "none", fin |-> f]
  ELSE IF res = "ok" /\ t # "none"
    THEN IF get_video_metadata(t)
           THEN [ok |-> TRUE, why |-> "promoted", tmp |-> "none", fin |-> t]
           ELSE [ok |-> FALSE, why |-> "rejected", tmp |-> "none", fin |-> f]
  ELSE IF res # "ok"
    THEN [ok |-> FALSE, why |-> "failed", tmp |-> "none", fin |-> f]
  ELSE [ok |-> FALSE, why |-> "missing", tmp |-> t, fin |-> f]

\* variant: the ignore list is not consulted
Ignored_never(do_not_ignore, matches) == FALSE

\* "if not do_not_ignore and should_ignore_video(raw_data, ...)"; no caller
\* of process_video_page passes do_not_ignore
Ignored(do_not_ignore, matches) == ~do_not_ignore /\ matches

\* variant: a failed download_video is called again
AfterDownload_retry(ok, sink) ==
  IF ~ok THEN "dl_backend"
  ELSE IF sink = "smb" THEN "vp_manage" ELSE "vp_record"

\* process_video_page after download_video: manage_file for a successful
\* download to the SMB temp dir, else on to the dedup record
AfterDownload(ok, sink) ==
  IF ok /\ sink = "smb" THEN "vp_manage" ELSE "vp_record"

\* variant: a file at the final path is taken as it is
ExistingValid_unprobed(overwrite, f) == ~overwrite /\ f # "none"

\* download_video (and process_video_page for the SMB temp dir): "if
\* os.path.exists(destination_path) and not overwrite" with a video_info
ExistingValid(overwrite, f) ==
  ~overwrite /\ f # "none" /\ get_video_metadata(f)

\* variant: the failed page is reported as a success
PageFailure_as_success == [next |-> "none", page |-> 0, ok |-> TRUE]

\* process_list_page: "return None, None, False" (no soup, no container,
\* no items)
PageFailure == [next |-> "none", page |-> 0, ok |-> FALSE]

\* the publication times a feed of k entries can carry, in feed order
FeedDates(order, k) ==
  IF order = "newest_first" THEN {[i \in 1..k |-> k + 1 - i]}
  ELSE IF order = "oldest_first" THEN {[i \in 1..k |-> i]}
  ELSE {p \in [1..k -> 1..k] : \A i, j \in 1..k : p[i] = p[j] => i = j}

\* driver.quit(): session d stops running (Chrome's quit swallows the error
\* of a session that is already gone)
driver_quit(ss, d) == IF d # 0 THEN [ss EXCEPT ![d] = FALSE] ELSE ss

\* variant: the stored session is not quit before a new one is created
get_selenium_driver_no_quit(ss, st, force_new, usable, init_ok) ==
  LET valid == st # 0 /\ ss[st] /\ usable
      create_new == force_new \/ st = 0 \/ ~valid
  IN IF ~create_new
       THEN [sessions |-> ss, selenium_driver |-> st, driver |-> st]
     ELSE IF init_ok /\ Len(ss) < MaxSessions
       THEN [sessions |-> Append(ss, TRUE),
             selenium_driver |-> Len(ss) + 1,
             driver |-> Len(ss) + 1]
     ELSE [sessions |-> ss, selenium_driver |-> st, driver |-> 0]

\* get_selenium_driver.  ss, st: the sessions and the stored one; usable:
\* driver.current_url answers; init_ok: webdriver.Chrome starts.  Result:
\* the sessions, the stored one and the driver returned (0: None)
get_selenium_driver(ss, st, force_new, usable, init_ok) ==
  LET valid == st # 0 /\ ss[st] /\ usable
      create_new == force_new \/ st = 0 \/ ~valid
      quit == driver_quit(ss, st)
  IN IF ~create_new
       THEN [sessions |-> ss, selenium_driver |-> st, driver |-> st]
     ELSE IF init_ok /\ Len(ss) < MaxSessions
       THEN [sessions |-> Append(quit, TRUE),
             selenium_driver |-> Len(ss) + 1,
             driver |-> Len(ss) + 1]
     ELSE [sessions |-> quit, selenium_driver |-> st, driver |-> 0]

\* variant: the stored session is left running
cleanup_skipped(ss, st) == ss

\* cleanup: quit the stored session
cleanup(ss, st) == driver_quit(ss, st)

\* main: the status the process exits with
ExitStatus(cause) ==
  IF cause = "interrupt" THEN 130
  ELSE IF cause \in {"exception", "sys_exit"} THEN 1
  ELSE 0

\* ------------------------------------------------------ construct_filename
\* A string is a sequence of characters; a character is the number of bytes
\* of its UTF-8 encoding, 0 for a blank (one byte, removed by rstrip) and
\* -1 for one of the configured invalid_chars (one byte).
CharBytes(c) == IF c <= 0 THEN 1 ELSE c

\* how often the character c occurs in s
CountOf(s, c) == Cardinality({i \in 1..Len(s) : s[i] = c})

\* the bytes of the characters of s that are at most w bytes wide
RECURSIVE BytesUpTo(_, _)
BytesUpTo(s, w) ==
  IF w = 0 THEN CountOf(s, -1) + CountOf(s, 0)
  ELSE w * CountOf(s, w) + BytesUpTo(s, w - 1)

\* len(s.encode('utf-8'))
ByteLen(s) == BytesUpTo(s, MaxWidth)

\* s.rstrip(): s up to its last character that is not a blank
rstrip(s) ==
  LET solid == {i \in 1..Len(s) : s[i] # 0}
  IN IF solid = {} THEN <<>>
     ELSE SubSeq(s, 1, CHOOSE i \in solid : \A j \in solid : j <= i)

\* s[:n] for n >= 0
Take(s, n) == SubSeq(s, 1, IF n < Len(s) THEN n ELSE Len(s))

\* s[:-k] for k >= 1
DropLast(s, k) == SubSeq(s, 1, IF k < Len(s) THEN Len(s) - k ELSE 0)

\* process_title: every invalid character is removed
process_title(title) == SelectSeq(title, LAMBDA c : c # -1)

\* n characters of c bytes each, every fifth one a blank
Filled(n, c) == [i \in 1..n |-> IF i % 5 = 0 THEN 0 ELSE c]

\* '_' and six random letters or digits, when a unique name is asked for
UniqueId(unique) == IF unique THEN Filled(UniqueIdLen, 1) ELSE <<>>

\* the file name put together from its parts
FileName(prefix, title, suffix, unique_id, extension) ==
  prefix \o title \o suffix \o unique_id \o extension

\* max_title_chars (lines 175-180)
MaxTitleChars(fixed_length, max_chars) ==
  LET m == (IF max_chars < NameMax THEN max_chars ELSE NameMax)
             - fixed_length
  IN IF m <= 0
       THEN (IF NameMax - fixed_length > 1 THEN NameMax - fixed_length
             ELSE 1)
       ELSE m

\* the inputs construct_filename is run on
TitleInputs ==
  {Filled(n, c) : n \in {0, 1, 60, 254, 300}, c \in 1..MaxWidth}
    \cup {[i \in 1..40 |-> IF i % 7 = 0 THEN -1 ELSE 1]}

PrefixInputs ==
  {Filled(n, c) : n \in {0, 10, 90, 260}, c \in 1..MaxWidth}

FilenameInputs ==
  [title : TitleInputs, prefix : PrefixInputs,
   suffix : {<<>>, Filled(3, 1)}, extension : {Filled(4, 1)},
   unique : BOOLEAN, max_chars : {0, 50, 255, 300}]

InitFilename ==
  /\ InitWith({BaseCfg})
  /\ match = [at |-> "idle"]
  /\ call = [at |-> "idle"]
  /\ \E in \in FilenameInputs :
       fname = [at |-> "build", in |-> in, processed_title |-> <<>>,
                filename |-> <<>>, iter |-> 0, before |-> 0]

\* construct_filename up to the byte check (lines 158-191)
CfBuild ==
  /\ fname.at = "build"
  /\ LET in == fname.in
         unique_id == UniqueId(in.unique)
         fixed_length == Len(in.prefix) + Len(in.suffix)
                           + Len(in.extension) + Len(unique_id)
         max_title_chars == MaxTitleChars(fixed_length, in.max_chars)
         cleaned == process_title(in.title)
         cut == IF Len(cleaned) > max_title_chars
                  THEN rstrip(Take(cleaned, max_title_chars))
                  ELSE cleaned
     IN fname' = [fname EXCEPT
                    !.at = "check",
                    !.processed_title = cut,
                    !.filename = FileName(in.prefix, cut, in.suffix,
                                          unique_id, in.extension)]
  /\ UNCHANGED <<crawl, match, call>>

\* one turn of "while len(filename.encode('utf-8')) > 255"
CfTrim ==
  /\ fname.at = "check"
  /\ ByteLen(fname.filename) > NameMax
  /\ fname.iter < MaxIter
  /\ LET in == fname.in
         excess == ByteLen(fname.filename) - NameMax
         trim_chars == (excess \div 4) + 1
         cut == rstrip(DropLast(fname.processed_title, trim_chars))
     IN fname' = [fname EXCEPT
                    !.processed_title = cut,
                    !.filename = FileName(in.prefix, cut, in.suffix,
                                          UniqueId(in.unique), in.extension),
                    !.iter = @ + 1,
                    !.before = ByteLen(fname.filename)]
  /\ UNCHANGED <<crawl, match, call>>

\* the loop is left and the file name returned
CfReturn ==
  /\ fname.at = "check"
  /\ ~(ByteLen(fname.filename) > NameMax)
  /\ fname' = [fname EXCEPT !.at = "returned"]
  /\ UNCHANGED <<crawl, match, call>>

NextFilename == CfBuild \/ CfTrim \/ CfReturn

SpecFilename == InitFilename /\ [][NextFilename]_vars

\* ------------------------------------------------------ match_url_to_mode
\* A template and a path are sequences of characters.
NoPattern == <<>>
Separators == {"/", "?", "&", "#"}
Digits == {"1"}
\* variant: no wildcard is numeric
numeric_wildcards_none == {}

\* the placeholders that take digits only
numeric_wildcards == {<<"p", "a", "g", "e">>}

\* s.rstrip("/")
rstrip_slash(s) ==
  LET solid == {i \in 1..Len(s) : s[i] # "/"}
  IN IF solid = {} THEN <<>>
     ELSE SubSeq(s, 1, CHOOSE i \in solid : \A j \in solid : j <= i)

\* the loop of pattern_to_regex from character i on: the literal runs it
\* closes (static_count) and their characters (static_length)
RECURSIVE StaticWalk(_, _, _, _, _, _)
StaticWalk(t, i, in_wildcard, current_static, static_count, static_length) ==
  IF i > Len(t)
    THEN IF current_static > 0
           THEN [static_count |-> static_count + 1,
                 static_length |-> static_length + current_static]
           ELSE [static_count |-> static_count,
                 static_length |-> static_length]
  ELSE IF t[i] = "{"
    THEN IF current_static > 0
           THEN StaticWalk(t, i + 1, TRUE, 0, static_count + 1,
                           static_length + current_static)
           ELSE StaticWalk(t, i + 1, TRUE, 0, static_count, static_length)
  ELSE IF t[i] = "}"
    THEN IF in_wildcard
           THEN StaticWalk(t, i + 1, FALSE, current_static, static_count,
                           static_length)
           ELSE StaticWalk(t, i + 1, FALSE, current_static + 1,
                           static_count, static_length)
  ELSE IF in_wildcard
    THEN StaticWalk(t, i + 1, TRUE, current_static, static_count,
                    static_length)
  ELSE StaticWalk(t, i + 1, FALSE, current_static + 1, static_count,
                  static_length)

\* the closing brace of the wildcard opened at i
WildEnd(t, i) == CHOOSE e \in (i + 1)..Len(t) :
                   t[e] = "}" /\ \A k \in (i + 1)..(e - 1) : t[k] # "}"

\* the template has a query part: "?" in pattern or "&" in pattern
HasQuery(t) == \E i \in 1..Len(t) : t[i] \in {"?", "&"}

\* regex.match of the compiled template t, from its character i, on the
\* path p from its character j; the regex is anchored at both ends, and
\* that of a template with a query part also ends before a further "&..."
RECURSIVE MatchFrom(_, _, _, _)
MatchFrom(t, i, p, j) ==
  IF i > Len(t) THEN j > Len(p) \/ (HasQuery(t) /\ p[j] = "&")
  ELSE IF t[i] = "{"
    THEN LET e == WildEnd(t, i)
             numeric == SubSeq(t, i + 1, e - 1) \in numeric_wildcards
             fits(c) == IF numeric THEN c \in Digits ELSE c \notin Separators
         IN \E n \in 1..(Len(p) - j + 1) :
              /\ \A k \in j..(j + n - 1) : fits(p[k])
              /\ MatchFrom(t, e + 1, p, j + n)
  ELSE j <= Len(p) /\ p[j] = t[i] /\ MatchFrom(t, i + 1, p, j + 1)

\* match.groupdict(): the values of the placeholders of a successful match;
\* every group takes the longest run that lets the rest match
RECURSIVE GroupsFrom(_, _, _, _)
GroupsFrom(t, i, p, j) ==
  IF i > Len(t) THEN {}
  ELSE IF t[i] = "{"
    THEN LET e == WildEnd(t, i)
             wildcard_name == SubSeq(t, i + 1, e - 1)
             numeric == wildcard_name \in numeric_wildcards
             fits(c) == IF numeric THEN c \in Digits ELSE c \notin Separators
             runs == {n \in 1..(Len(p) - j + 1) :
                        /\ \A k \in j..(j + n - 1) : fits(p[k])
                        /\ MatchFrom(t, e + 1, p, j + n)}
             n == CHOOSE n \in runs : \A m \in runs : m <= n
         IN {<<wildcard_name, SubSeq(p, j, j + n - 1)>>}
              \cup GroupsFrom(t, e + 1, p, j + n)
  ELSE GroupsFrom(t, i + 1, p, j + 1)

\* pattern_to_regex: the matcher and the two numbers of a template
pattern_to_regex(pattern) ==
  LET t == rstrip_slash(pattern)
      w == StaticWalk(t, 1, FALSE, 0, 0, 0)
  IN [regex |-> t, static_count |-> w.static_count,
      static_length |-> w.static_length]

\* full_path of a URL given from its path on: the path without its trailing
\* slashes, then "?" and the query when there is one
full_path(rest) ==
  LET marks == {i \in 1..Len(rest) : rest[i] = "?"}
      q == IF marks = {} THEN Len(rest) + 1
           ELSE CHOOSE i \in marks : \A j \in marks : i <= j
      query == SubSeq(rest, q + 1, Len(rest))
  IN rstrip_slash(SubSeq(rest, 1, q - 1))
       \o (IF query # <<>> THEN <<"?">> \o query ELSE <<>>)

\* the first "www." of a host and what follows it
Www == <<"w", "w", "w", ".">>

\* netloc.replace("www.", "", 1): the first occurrence is removed, wherever
\* it stands
netloc(host) ==
  LET at == {i \in 1..(Len(host) - Len(Www) + 1) :
               SubSeq(host, i, i + Len(Www) - 1) = Www}
  IN IF at = {} THEN host
     ELSE LET i == CHOOSE i \in at : \A j \in at : i <= j
          IN SubSeq(host, 1, i - 1)
               \o SubSeq(host, i + Len(Www), Len(host))

\* the best match before any template has been tried
NoBest == [best_match |-> "None", best_static_count |-> -1,
           best_static_length |-> -1]

\* variant: the literal characters are compared before the literal runs
Consider_length_first(best, mode, pattern, path) ==
  LET c == pattern_to_regex(pattern)
  IN IF pattern = NoPattern \/ ~MatchFrom(c.regex, 1, path, 1) THEN best
     ELSE IF \/ c.static_length > best.best_static_length
             \/ /\ c.static_length = best.best_static_length
                /\ c.static_count > best.best_static_count
       THEN [best_match |-> mode, best_static_count |-> c.static_count,
             best_static_length |-> c.static_length]
     ELSE best

\* variant: the literal characters are not compared
Consider_count_only(best, mode, pattern, path) ==
  LET c == pattern_to_regex(pattern)
  IN IF pattern = NoPattern \/ ~MatchFrom(c.regex, 1, path, 1) THEN best
     ELSE IF c.static_count > best.best_static_count
       THEN [best_match |-> mode, best_static_count |-> c.static_count,
             best_static_length |-> c.static_length]
     ELSE best

\* one turn of the inner loop: the template of one pattern_key of one mode
Consider(best, mode, pattern, path) ==
  LET c == pattern_to_regex(pattern)
  IN IF pattern = NoPattern \/ ~MatchFrom(c.regex, 1, path, 1) THEN best
     ELSE IF \/ c.static_count > best.best_static_count
             \/ /\ c.static_count = best.best_static_count
                /\ c.static_length > best.best_static_length
       THEN [best_match |-> mode, best_static_count |-> c.static_count,
             best_static_length |-> c.static_length]
     ELSE best

pattern_keys == <<"url_pattern", "url_pattern_pages">>

\* the inputs match_url_to_mode is run on
ModeNames == {"list", "search"}

Patterns ==
  { <<"/", "a">>, <<"/", "a", "/">>,
    <<"/", "{", "x", "}">>, <<"/", "{", "x", "}", "/">>,
    <<"/", "a", "/", "{", "x", "}">>,
    <<"/", "a", "a", "/", "{", "x", "}">>,
    <<"/", "a", "?", "{", "x", "}">>,
    <<"/", "{", "x", "}", "/", "{", "y", "}">> }

PagedPatterns ==
  { NoPattern,
    <<"/", "a", "/", "{", "p", "a", "g", "e", "}">>,
    <<"/", "{", "x", "}", "/", "{", "p", "a", "g", "e", "}", "/">> }

VideoPatterns == { NoPattern, <<"/", "{", "x", "}">> }

Paths ==
  { <<"/", "a">>, <<"/", "a", "/">>, <<"/", "a", "/", "1">>,
    <<"/", "a", "/", "a">>, <<"/", "a", "a", "/", "a">>,
    <<"/", "1", "/", "1", "/">>, <<"/", "a", "?", "a", "&", "a">> }

\* the hosts of the URLs and the host of the site's base_url
Hosts ==
  { <<"e", ".", "e">>, <<"e", ".", "w", "w", "w", ".", "e">>,
    <<"w", ".", "e">> }

BaseHosts == { <<"w", "w", "w", ".", "e", ".", "e">> }

ModeOrders == { o \in [1..Cardinality(ModeNames) -> ModeNames] :
                  \A m \in ModeNames : \E i \in DOMAIN o : o[i] = m }

ModeConfig == [url_pattern : Patterns, url_pattern_pages : PagedPatterns]

InitMatch ==
  /\ InitWith({BaseCfg})
  /\ fname = [at |-> "idle"]
  /\ call = [at |-> "idle"]
  /\ \E order \in ModeOrders, modes \in [ModeNames -> ModeConfig],
        video \in VideoPatterns, path \in Paths, host \in Hosts,
        base_host \in BaseHosts :
       match = [at |-> "start", order |-> order, modes |-> modes,
                video |-> video, path |-> path, host |-> host,
                base_host |-> base_host, same_host |-> FALSE,
                i |-> 1, k |-> 1, best |-> NoBest, pattern |-> NoPattern,
                found |-> FALSE, extracted |-> {}, result |-> "-"]

\* the whole loop of lines 1846-1861 after its first n turns, for modes
\* declared in the given order
RECURSIVE LoopAfter(_, _, _, _)
LoopAfter(order, modes, path, n) ==
  IF n = 0 THEN NoBest
  ELSE LET mode == order[(n + 1) \div Len(pattern_keys)]
           key == pattern_keys[IF n % Len(pattern_keys) = 1 THEN 1
                               ELSE Len(pattern_keys)]
       IN Consider(LoopAfter(order, modes, path, n - 1), mode,
                   modes[mode][key], path)

\* lines 1866-1883: what is returned for the best match of the loop
Returned(best, video, path) ==
  IF best.best_match # "None" THEN best.best_match
  ELSE IF /\ video # NoPattern
          /\ MatchFrom(pattern_to_regex(video).regex, 1, path, 1)
    THEN "video"
  ELSE "None"

\* lines 1829-1844: the host is compared, the best match is cleared
MmStart ==
  /\ match.at = "start"
  /\ match' = IF netloc(match.host) = netloc(match.base_host)
                THEN [match EXCEPT !.at = "loop", !.same_host = TRUE,
                                   !.best = NoBest]
                ELSE [match EXCEPT !.at = "returned", !.result = "None"]
  /\ UNCHANGED <<crawl, fname, call>>

\* lines 1846-1861: one template of one mode is tried
MmTest ==
  /\ match.at = "loop"
  /\ match.i <= Len(match.order)
  /\ LET mode == match.order[match.i]
         pattern == match.modes[mode][pattern_keys[match.k]]
         regex == pattern_to_regex(pattern).regex
         found == /\ pattern # NoPattern
                  /\ MatchFrom(regex, 1, full_path(match.path), 1)
     IN match' = [match EXCEPT
                    !.best = Consider(match.best, mode, pattern,
                                      full_path(match.path)),
                    !.pattern = IF pattern # NoPattern THEN pattern ELSE @,
                    !.found = IF pattern # NoPattern THEN found ELSE @,
                    !.extracted =
                       IF found
                         THEN GroupsFrom(regex, 1, full_path(match.path), 1)
                         ELSE @,
                    !.k = IF match.k < Len(pattern_keys) THEN match.k + 1
                          ELSE 1,
                    !.i = IF match.k < Len(pattern_keys) THEN match.i
                          ELSE match.i + 1]
  /\ UNCHANGED <<crawl, fname, call>>

\* lines 1866-1883: the best match, else the video mode, else nothing
MmReturn ==
  /\ match.at = "loop"
  /\ match.i > Len(match.order)
  /\ match' = [match EXCEPT
                 !.at = "returned",
                 !.result = Returned(match.best, match.video,
                                     full_path(match.path))]
  /\ UNCHANGED <<crawl, fname, call>>

NextMatch == MmStart \/ MmTest \/ MmReturn

SpecMatch == InitMatch /\ [][NextMatch]_vars

\* ----------------------------------------------------------- construct_url
\* A template is a sequence of literal characters and {placeholders}; the
\* placeholder {page - 1} has op "-" and k 1, a plain one has op "".
Lit(c) == [kind |-> "lit", name |-> c, op |-> "", k |-> 0]
Field(n) == [kind |-> "field", name |-> n, op |-> "", k |-> 0]
Arith(op, k) == [kind |-> "field", name |-> "page", op |-> op, k |-> k]

\* the values a keyword argument can have
IntValue(n) == [t |-> "int", int |-> n, str |-> <<>>]
StrValue(s) == [t |-> "str", int |-> 0, str |-> s]
NoneValue == [t |-> "none", int |-> 0, str |-> <<>>]

DigitChars == <<"0", "1", "2", "3", "4", "5", "6", "7", "8", "9">>

\* str(n) of a natural number, then of an integer
RECURSIVE DecimalNat(_)
DecimalNat(n) ==
  IF n < Len(DigitChars) THEN <<DigitChars[n + 1]>>
  ELSE DecimalNat(n \div Len(DigitChars))
         \o <<DigitChars[(n % Len(DigitChars)) + 1]>>

Decimal(n) == IF n < 0 THEN <<"-">> \o DecimalNat(0 - n) ELSE DecimalNat(n)

\* the digit a character stands for
DigitOf(c) == (CHOOSE d \in 1..Len(DigitChars) : DigitChars[d] = c) - 1

IsDigits(s) ==
  s # <<>> /\ \A i \in 1..Len(s) : \E d \in 1..Len(DigitChars) :
                                     DigitChars[d] = s[i]

\* int(s) of a run of digits
RECURSIVE ParseNat(_)
ParseNat(s) ==
  IF s = <<>> THEN 0
  ELSE ParseNat(SubSeq(s, 1, Len(s) - 1)) * Len(DigitChars)
         + DigitOf(s[Len(s)])

\* str(v)
StrOf(v) == IF v.t = "int" THEN Decimal(v.int)
            ELSE IF v.t = "str" THEN v.str
            ELSE <<"N", "o", "n", "e">>

\* re.search(page_pattern, pattern): the first arithmetic placeholder
ArithAt(pattern) ==
  {i \in 1..Len(pattern) : pattern[i].kind = "field" /\ pattern[i].op # ""}

\* "if match and 'page' in kwargs"
ArithApplies(found, kwargs) == found /\ "page" \in DOMAIN kwargs

\* pattern.replace(text, chars): every occurrence of the placeholder is
\* replaced by the characters
RECURSIVE ReplaceAll(_, _, _)
ReplaceAll(pattern, placeholder, chars) ==
  IF pattern = <<>> THEN <<>>
  ELSE (IF Head(pattern) = placeholder
          THEN [i \in 1..Len(chars) |-> Lit(chars[i])]
          ELSE <<Head(pattern)>>)
         \o ReplaceAll(Tail(pattern), placeholder, chars)

\* encoded_v: every rule's original is replaced by its replacement
Encoded(s, encoding_rules) ==
  [i \in 1..Len(s) |-> IF s[i] \in DOMAIN encoding_rules
                         THEN encoding_rules[s[i]] ELSE s[i]]

\* pattern.format(**encoded_kwargs) can be carried out
Formattable(pattern, encoded_kwargs) ==
  \A i \in 1..Len(pattern) :
    pattern[i].kind = "field" =>
      pattern[i].op = "" /\ pattern[i].name \in DOMAIN encoded_kwargs

\* pattern.format(**encoded_kwargs)
RECURSIVE Format(_, _)
Format(pattern, encoded_kwargs) ==
  IF pattern = <<>> THEN <<>>
  ELSE (IF Head(pattern).kind = "lit" THEN <<Head(pattern).name>>
        ELSE StrOf(encoded_kwargs[Head(pattern).name]))
         \o Format(Tail(pattern), encoded_kwargs)

\* urllib.parse.urljoin(base_url, path) for a base_url without a path
urljoin(base_url, path) == base_url \o path

\* the inputs construct_url is run on
UrlPatterns ==
  { <<Lit("/"), Lit("p"), Lit("/"), Arith("-", 1)>>,
    <<Lit("/"), Lit("p"), Lit("/"), Arith("+", 2)>>,
    <<Lit("/"), Lit("p"), Lit("/"), Arith("+", 12)>>,
    <<Lit("/"), Lit("p"), Lit("/"), Field("page")>>,
    <<Lit("/"), Lit("v"), Lit("/"), Field("video")>>,
    <<Lit("/"), Arith("-", 1), Lit("/"), Arith("-", 1)>>,
    <<Lit("/"), Arith("-", 1), Lit("/"), Arith("+", 2)>>,
    <<Lit("/"), Arith("-", 1), Lit("/"), Field("page")>>,
    <<Lit("/"), Arith("-", 1), Lit("?"), Lit("o"), Lit("="), Field("o")>> }

PageArgs ==
  { IntValue(0), IntValue(1), IntValue(5), StrValue(<<"5">>),
    StrValue(<<"x">>), NoneValue }

VideoArgs == { StrValue(<<"a", " ", "b">>) }

KwargSets ==
  UNION { [names -> PageArgs \cup VideoArgs] :
            names \in SUBSET {"page", "video"} }

UrlKwargs ==
  { kw \in KwargSets :
      /\ "page" \in DOMAIN kw => kw["page"] \in PageArgs
      /\ "video" \in DOMAIN kw => kw["video"] \in VideoArgs }

EncodingRules == { <<>>, [c \in {" "} |-> "-"] }

BaseUrl == <<"https://e.e">>

InitConstruct ==
  /\ InitWith({BaseCfg})
  /\ fname = [at |-> "idle"]
  /\ match = [at |-> "idle"]
  /\ \E pattern \in UrlPatterns, kwargs \in UrlKwargs,
        encoding_rules \in EncodingRules,
        sort \in {NoneValue, StrValue(<<"m", "r">>)},
        min_duration \in {NoneValue, IntValue(20)} :
       call = [fn |-> "construct_url", at |-> "arith",
               template |-> pattern, pattern |-> pattern, kwargs |-> kwargs,
               encoding_rules |-> encoding_rules, sort |-> sort,
               min_duration |-> min_duration, arith |-> FALSE,
               encoded_kwargs |-> <<>>, ok |-> FALSE, full_url |-> <<>>]

\* lines 219-241: the arithmetic placeholder
CuArith ==
  /\ call.at = "arith"
  /\ LET found == ArithAt(call.pattern)
         m == IF found = {} THEN Field("")
              ELSE call.pattern[CHOOSE i \in found : \A j \in found : i <= j]
         page_value == call.kwargs["page"]
         fits == \/ page_value.t = "int"
                 \/ page_value.t = "str" /\ IsDigits(page_value.str)
         page_int == IF page_value.t = "int" THEN page_value.int
                     ELSE ParseNat(page_value.str)
         adjusted_page == IF m.op = "+" THEN page_int + m.k
                          ELSE page_int - m.k
     IN IF ArithApplies(found # {}, call.kwargs)
          THEN call' = [call EXCEPT
                 !.at = "encode", !.arith = TRUE,
                 !.pattern =
                    IF page_value.t = "none"
                      THEN ReplaceAll(call.pattern, m, <<>>)
                    ELSE IF fits
                      THEN ReplaceAll(call.pattern, m, Decimal(adjusted_page))
                    ELSE ReplaceAll(call.pattern, m, StrOf(page_value))]
          ELSE call' = [call EXCEPT
                 !.at = "encode", !.arith = found # {},
                 !.encoded_kwargs =
                    IF "page" \in DOMAIN call.kwargs
                      THEN [n \in {"page"} |-> call.kwargs[n]]
                      ELSE <<>>]
  /\ UNCHANGED <<crawl, fname, match>>

\* lines 243-259: the other arguments are encoded, sort and min_duration
\* added
CuEncode ==
  /\ call.at = "encode"
  /\ LET kept == {n \in DOMAIN call.kwargs : ~(n = "page" /\ call.arith)}
         extra == {n \in {"o", "min_duration"} :
                     (IF n = "o" THEN call.sort ELSE call.min_duration).t
                        # "none"}
         value(n) ==
           IF n = "o" /\ n \in extra THEN call.sort
           ELSE IF n = "min_duration" /\ n \in extra THEN call.min_duration
           ELSE IF n \in kept
             THEN (IF call.kwargs[n].t = "str"
                     THEN StrValue(Encoded(call.kwargs[n].str,
                                           call.encoding_rules))
                     ELSE call.kwargs[n])
           ELSE call.encoded_kwargs[n]
     IN call' = [call EXCEPT
          !.at = "format",
          !.encoded_kwargs =
             [n \in DOMAIN call.encoded_kwargs \cup kept \cup extra
                |-> value(n)]]
  /\ UNCHANGED <<crawl, fname, match>>

\* lines 261-269: the template is formatted and joined to the base URL
CuFormat ==
  /\ call.at = "format"
  /\ call' = IF Formattable(call.pattern, call.encoded_kwargs)
               THEN [call EXCEPT
                       !.at = "returned", !.ok = TRUE,
                       !.full_url =
                          urljoin(BaseUrl, Format(call.pattern,
                                                  call.encoded_kwargs))]
               ELSE [call EXCEPT !.at = "returned", !.ok = FALSE]
  /\ UNCHANGED <<crawl, fname, match>>

NextConstruct == CuArith \/ CuEncode \/ CuFormat

SpecConstruct == InitConstruct /\ [][NextConstruct]_vars

\* --------------------------------------------- the next page of a listing
\* The argument of a run: whether urlparse finds a scheme or a host in it,
\* and the identifier of the listing it names.
Arg(has_netloc, id) == [netloc |-> has_netloc, id |-> id]

\* is_url(string)
is_url(arg) == arg.netloc

\* process_url: url.split("/")[-1].split(".")[0] if not is_full_url else None
UrlIdentifier(arg) == IF ~is_url(arg) THEN StrValue(arg.id) ELSE NoneValue

\* handle_multi_arg: " ".join(args[2:])
ArgIdentifier(arg) == StrValue(arg.id)

\* the paged templates of a list mode
PagedTemplates ==
  { <<Lit("/"), Lit("s"), Lit("/"), Field("search"), Lit("/"), Field("page")>>,
    <<Lit("/"), Lit("s"), Lit("/"), Field("search"), Lit("?"), Lit("p"),
      Lit("="), Arith("-", 1)>>,
    <<Lit("/"), Field("search"), Lit("/"), Arith("+", 2)>> }

\* the listings a run can name
Identifiers == { <<"a">>, <<"a", " ", "b">>, <<"b", "a">> }

\* handle_single_arg calls process_url only for an argument that is a URL;
\* handle_multi_arg takes the site, the mode and the identifier
InitNextPage ==
  /\ InitWith({BaseCfg})
  /\ fname = [at |-> "idle"]
  /\ match = [at |-> "idle"]
  /\ \E entry \in {"process_url", "handle_multi_arg"}, id \in Identifiers,
        pattern \in PagedTemplates, p \in 1..SitePages,
        encoding_rules \in EncodingRules :
       call = [fn |-> "next_page", at |-> "identifier", entry |-> entry,
               arg |-> Arg(entry = "process_url", id),
               identifier |-> NoneValue, current_page |-> p,
               template |-> pattern, pattern |-> pattern, kwargs |-> <<>>,
               encoding_rules |-> encoding_rules, sort |-> NoneValue,
               min_duration |-> NoneValue, arith |-> FALSE,
               encoded_kwargs |-> <<>>, ok |-> FALSE, full_url |-> <<>>]

\* process_url line 564, handle_multi_arg line 2628
NpIdentifier ==
  /\ call.at = "identifier"
  /\ call' = [call EXCEPT
       !.at = "render",
       !.identifier = IF call.entry = "process_url"
                        THEN UrlIdentifier(call.arg)
                        ELSE ArgIdentifier(call.arg)]
  /\ UNCHANGED <<crawl, fname, match>>

\* process_list_page lines 774-783: construct_url(base_url,
\* url_pattern_pages, site_config, mode=mode,
\* **{mode: identifier, 'page': page_num + 1})
NpRender ==
  /\ call.at = "render"
  /\ call' = [call EXCEPT
       !.at = "arith",
       !.kwargs = [n \in {"search", "page"} |->
                     IF n = "page"
                       THEN IntValue(NextPageNumber(call.current_page))
                       ELSE call.identifier]]
  /\ UNCHANGED <<crawl, fname, match>>

NextNextPage == NpIdentifier \/ NpRender \/ CuArith \/ CuEncode \/ CuFormat

SpecNextPage == InitNextPage /\ [][NextNextPage]_vars

\* ------------------------------------------------------ get_video_metadata
\* A duration is a number of half seconds (ffprobe reports fractions).
DurationUnit == 2

\* what ffprobe can report as format.duration and format.size
Durations == {0, 1, 2, 3}
ProbedSizes == {0, 5119, 5120, 10239, 10240, 15359, 15360, 40960}

\* variant: the test "duration > 0" is missing, the division by 0 raises
TooSmall_unguarded(file_size, duration) ==
  duration = 0 \/ file_size * DurationUnit < MinBytesPerSecond * duration

\* "duration > 0 and file_size / duration < 10240"
TooSmall(file_size, duration) ==
  duration > 0 /\ file_size * DurationUnit < MinBytesPerSecond * duration

InitProbe ==
  /\ InitWith({BaseCfg})
  /\ fname = [at |-> "idle"]
  /\ match = [at |-> "idle"]
  /\ \E ffprobe \in {"ok", "failed", "garbled"},
        has_size \in BOOLEAN, size \in ProbedSizes, on_disk \in {0, 40960},
        has_duration \in BOOLEAN, duration \in Durations :
       call = [fn |-> "get_video_metadata", at |-> "probe",
               ffprobe |-> ffprobe, has_size |-> has_size, size |-> size,
               on_disk |-> on_disk, has_duration |-> has_duration,
               probed |-> duration, file_size |-> 0, duration |-> 0,
               result |-> "-"]

\* lines 1332-1340: ffprobe is run and its output read; a failed run
\* (CalledProcessError) or unreadable output (any other exception) gives None
GmProbe ==
  /\ call.at = "probe"
  /\ call' = IF call.ffprobe # "ok"
               THEN [call EXCEPT !.at = "returned", !.result = "None"]
               ELSE [call EXCEPT
                       !.at = "check",
                       !.file_size = IF call.has_size THEN call.size
                                     ELSE call.on_disk,
                       !.duration = IF call.has_duration THEN call.probed
                                    ELSE 0]
  /\ UNCHANGED <<crawl, fname, match>>

\* lines 1351-1362: the sanity check
GmCheck ==
  /\ call.at = "check"
  /\ call' = [call EXCEPT
                !.at = "returned",
                !.result = IF TooSmall(call.file_size, call.duration)
                             THEN "None" ELSE "info"]
  /\ UNCHANGED <<crawl, fname, match>>

NextProbe == GmProbe \/ GmCheck

SpecProbe == InitProbe /\ [][NextProbe]_vars

\* ------------------------------------------------------------ extract_data
\* A text is a word ("" for none) that may be capitalised and may be padded
\* with blanks; an element has a text and one attribute ("None" when unset).
Text(w, cap, pad) == [w |-> w, cap |-> cap, pad |-> pad]
EmptyText == Text("", FALSE, FALSE)

\* s.strip(), s.lower(), bool(s)
strip(s) == [s EXCEPT !.pad = FALSE]
lower(s) == [s EXCEPT !.cap = FALSE]
Truthy(s) == s.w # "" \/ s.pad

\* a value of the result: a string or a list of strings
Str(s) == [t |-> "str", s |-> s, l |-> <<>>]
List(l) == [t |-> "list", s |-> EmptyText, l |-> l]

Element(text, attr) == [text |-> text, attr |-> attr]

\* the string an attribute holds
AttrText(a) == Text(a, FALSE, FALSE)

\* a selector configuration: a string, a dictionary (with or without the
\* keys selector, iframe, attribute and postProcess) or anything else
Config(shape, selector, iframe, attribute, has_post, steps) ==
  [shape |-> shape, selector |-> selector, iframe |-> iframe,
   attribute |-> attribute, has_post |-> has_post, steps |-> steps]

TextConfigs ==
  { Config("str", "absent", FALSE, FALSE, FALSE, <<>>),
    Config("dict", "one", FALSE, FALSE, FALSE, <<>>),
    Config("dict", "namespace", FALSE, FALSE, FALSE, <<>>),
    Config("dict", "one", FALSE, FALSE, TRUE, <<>>),
    Config("dict", "one", FALSE, FALSE, TRUE, <<"first">>),
    Config("dict", "one", FALSE, FALSE, TRUE, <<"replace">>),
    Config("dict", "one", FALSE, FALSE, TRUE, <<"bad_regex">>) }

ListConfigs == { Config("dict", "list", FALSE, FALSE, FALSE, <<>>) }

IframeConfigs == { Config("dict", "one", TRUE, FALSE, FALSE, <<>>) }

AttributeConfigs ==
  { Config("dict", "one", FALSE, TRUE, FALSE, <<>>),
    Config("dict", "one", FALSE, FALSE, TRUE, <<"max_attribute">>) }

\* max_attribute steps with the type absent ('str'), 'int' and 'float'
MaxSteps == {"max_attribute", "max_attribute_int", "max_attribute_float"}

MaxConfigs ==
  { Config("dict", "one", FALSE, FALSE, TRUE, <<step>>) : step \in MaxSteps }

BareConfigs ==
  { Config("dict", "absent", FALSE, TRUE, FALSE, <<>>),
    Config("dict", "absent", FALSE, FALSE, FALSE, <<>>),
    Config("other", "absent", FALSE, FALSE, FALSE, <<>>) }

\* the texts elements can have
Texts == { Text("jane", TRUE, TRUE), Text("jane", FALSE, FALSE),
           Text("bob", TRUE, FALSE), Text("", FALSE, TRUE) }

\* what a selector can match: up to MaxElements elements without attribute
PlainMatches ==
  {<<>>} \cup SeqsUpTo({Element(x, "None") : x \in Texts}, MaxElements)

\* what a selector can match when attributes are read
AttributeMatches ==
  { <<>>,
    <<Element(Text("jane", TRUE, FALSE), "None")>>,
    <<Element(Text("jane", TRUE, FALSE), "1")>>,
    <<Element(Text("jane", TRUE, FALSE), "1"),
      Element(Text("bob", TRUE, FALSE), "2")>>,
    <<Element(Text("jane", TRUE, FALSE), "2"),
      Element(Text("jane", FALSE, FALSE), "1"),
      Element(Text("bob", TRUE, FALSE), "2")>>,
    <<Element(Text("jane", TRUE, FALSE), "None"),
      Element(Text("bob", TRUE, FALSE), "1")>> }

\* the strings the attribute max_attribute reads can hold
Attrs == {"None", "1", "2", "10", "x"}

\* three matched elements with any attributes: the first one has no text,
\* the text of the second one in another casing, or a text of its own
MaxMatches ==
  { <<Element(t, a), Element(Text("jane", TRUE, FALSE), b),
      Element(Text("bob", TRUE, FALSE), c)>> :
      t \in {Text("", FALSE, TRUE), Text("jane", FALSE, FALSE),
             Text("al", TRUE, FALSE)},
      a \in Attrs, b \in Attrs, c \in Attrs }

Fields == {"tags", "actors", "producers", "studios", "title", "download_url"}

\* one entry of the selector map with what its selectors match on this page:
\* results[n] is what the n-th selector of the configuration matches
Entry(field, config, results, iframe_ok, soup_attr) ==
  [field |-> field, config |-> config, results |-> results,
   iframe_ok |-> iframe_ok, soup_attr |-> soup_attr]

FirstEntries ==
  {Entry(f, c, <<m>>, TRUE, "None") :
     f \in Fields, c \in TextConfigs, m \in PlainMatches}
  \cup {Entry(f, c, r, TRUE, "None") :
     f \in Fields, c \in ListConfigs,
     r \in {<<m, <<Element(Text("bob", TRUE, FALSE), "None")>> >> :
              m \in PlainMatches} \cup {<< <<>>, <<>> >>}}
  \cup {Entry(f, c, <<m>>, ok, "None") :
     f \in Fields, c \in IframeConfigs, m \in PlainMatches, ok \in BOOLEAN}
  \cup {Entry(f, c, <<m>>, TRUE, "None") :
     f \in Fields, c \in AttributeConfigs, m \in AttributeMatches}
  \cup {Entry(f, c, <<m>>, TRUE, "None") :
     f \in Fields, c \in MaxConfigs, m \in MaxMatches}
  \cup {Entry(f, c, <<>>, TRUE, a) :
     f \in Fields, c \in BareConfigs, a \in {"None", "1"}}

LastEntries ==
  {Entry("date", Config("str", "absent", FALSE, FALSE, FALSE, <<>>),
         <<m>>, TRUE, "None") :
     m \in {<<>>, <<Element(Text("jane", TRUE, TRUE), "None")>>}}

InitExtract ==
  /\ InitWith({BaseCfg})
  /\ fname = [at |-> "idle"]
  /\ match = [at |-> "idle"]
  /\ \E first \in FirstEntries, last \in LastEntries,
        driver \in BOOLEAN, m3u8_mode \in BOOLEAN :
       /\ first.config.iframe \/ driver
       /\ first.field = "download_url" \/ ~m3u8_mode
       /\ call = [fn |-> "extract_data", at |-> "select",
                  selectors |-> <<first, last>>, driver |-> driver,
                  m3u8_mode |-> m3u8_mode, i |-> 1, elements |-> <<>>,
                  data |-> <<>>]

\* variant: the assignment is lost
Store_lost(data, field, value) == data

\* data[field] = value
Store(data, field, value) ==
  [f \in DOMAIN data \cup {field} |-> IF f = field THEN value ELSE data[f]]

\* lines 1136-1171: the elements the configuration of an entry selects
Select(e, driver) ==
  LET config == e.config
  IN IF config.shape = "str" THEN e.results[1]
     ELSE IF config.shape = "dict"
       THEN IF config.iframe /\ driver
              THEN (IF e.iframe_ok THEN e.results[1] ELSE <<>>)
            ELSE IF config.selector = "list"
              THEN (IF e.results[1] # <<>> THEN e.results[1]
                    ELSE e.results[Len(e.results)])
            ELSE IF config.selector # "absent" THEN e.results[1]
            ELSE IF config.attribute
              THEN <<Element(EmptyText, e.soup_attr)>>
            ELSE <<>>
     ELSE <<>>

\* the texts of the elements that have one, stripped
RECURSIVE StrippedTexts(_)
StrippedTexts(elements) ==
  IF elements = <<>> THEN <<>>
  ELSE (IF Truthy(Head(elements).text) /\ Truthy(strip(Head(elements).text))
          THEN <<strip(Head(elements).text)>> ELSE <<>>)
         \o StrippedTexts(Tail(elements))

\* lines 1193-1197: a value is kept unless its lower-case form has been seen
Deduplicated(values) ==
  LET keep == {i \in 1..Len(values) :
                 \A j \in 1..(i - 1) : lower(values[j]) # lower(values[i])}
      nth(n) == CHOOSE i \in keep : Cardinality({j \in keep : j < i}) = n - 1
  IN [n \in 1..Cardinality(keep) |-> values[nth(n)]]

\* the fields line 1192 treats as multi-value
MultiValueFields == {"tags", "actors", "producers", "studios"}

\* the fields line 1246 keeps as lists
KeptLists == {"tags", "actors", "studios"}

\* value[0] if value else ''
FirstOrEmpty(l) == IF l # <<>> THEN Str(l[1]) ELSE Str(EmptyText)

\* lines 1178-1189: the value before deduplication and post-processing
RawValue(config, elements) ==
  IF config.shape = "dict" /\ config.attribute
    THEN LET values == SelectSeq([i \in 1..Len(elements) |->
                                    AttrText(elements[i].attr)],
                                 LAMBDA a : a.w # "None" /\ Truthy(a))
         IN IF Len(values) = 1 THEN Str(values[1])
            ELSE IF values # <<>> THEN List(values)
            ELSE Str(EmptyText)
    ELSE IF Truthy(elements[1].text) THEN Str(strip(elements[1].text))
         ELSE Str(EmptyText)

\* re.sub(regex, replacement, v): the rule of the model removes the word bob
Sub(v) == IF v.w = "bob" THEN EmptyText ELSE v

\* step.get('type', 'str')
attr_type(step) ==
  IF step = "max_attribute_int" THEN "int"
  ELSE IF step = "max_attribute_float" THEN "float" ELSE "str"

\* int(attr), float(attr) raise ValueError for a string that is no number
Converts(type, attr) == type = "str" \/ attr # "x"

\* the place of the converted attribute in the order max compares by:
\* numbers by their value, strings character by character
AttrKey(type, attr) ==
  IF type = "str"
    THEN (CASE attr = "1" -> 1 [] attr = "10" -> 2 [] attr = "2" -> 3
            [] OTHER -> 4)
    ELSE (CASE attr = "1" -> 1 [] attr = "2" -> 2 [] attr = "10" -> 10
            [] OTHER -> 0)

\* lines 1193-1197: the index of the element the i-th value of a
\* multi-value field is the text of
Origin(elements, i) ==
  LET kept == {e \in 1..Len(elements) :
                 /\ Truthy(elements[e].text)
                 /\ Truthy(strip(elements[e].text))
                 /\ \A d \in 1..(e - 1) :
                      lower(strip(elements[d].text))
                        # lower(strip(elements[e].text))}
  IN CHOOSE e \in kept : Cardinality({d \in kept : d < e}) = i - 1

\* variant: the i-th value is paired with the element it was extracted from
Paired_origin(elements, i) == elements[Origin(elements, i)]

\* line 1225: the i-th value is paired with elements[i]
Paired(elements, i) == elements[i]

\* one step of postProcess
ApplyStep(value, step, elements) ==
  IF step = "replace"
    THEN IF value.t = "list"
           THEN List([i \in 1..Len(value.l) |->
                        IF Truthy(value.l[i]) THEN Sub(value.l[i])
                        ELSE EmptyText])
           ELSE IF Truthy(value.s) THEN Str(Sub(value.s))
           ELSE Str(EmptyText)
  ELSE IF step = "bad_regex" THEN Str(EmptyText)
  ELSE IF step \in MaxSteps
    THEN IF value.t # "list" THEN value
         ELSE LET type == attr_type(step)
                  attr(i) == Paired(elements, i).attr
                  with == {i \in 1..Len(value.l) : attr(i) # "None"}
                  key(i) == AttrKey(type, attr(i))
                  best == CHOOSE i \in with :
                            \A j \in with :
                              key(j) < key(i) \/ (key(j) = key(i) /\ i <= j)
              IN IF with = {} THEN FirstOrEmpty(value.l)
                 ELSE IF \E i \in with : ~Converts(type, attr(i))
                   THEN FirstOrEmpty(value.l)
                 ELSE Str(value.l[best])
  ELSE IF value.t = "list" THEN FirstOrEmpty(value.l)
  ELSE value

RECURSIVE PostProcess(_, _, _)
PostProcess(value, steps, elements) ==
  IF steps = <<>> THEN value
  ELSE PostProcess(ApplyStep(value, Head(steps), elements), Tail(steps),
                   elements)

\* lines 1178-1250: the value stored for a field whose elements were found
FieldValue(field, config, elements) ==
  LET raw == RawValue(config, elements)
      multi == IF field \in MultiValueFields
                    /\ ~(config.shape = "dict" /\ config.attribute)
                 THEN List(Deduplicated(StrippedTexts(elements)))
                 ELSE raw
      processed == IF config.shape = "dict" /\ config.has_post
                     THEN PostProcess(multi, config.steps, elements)
                     ELSE multi
      final == IF /\ config.shape = "dict" /\ ~config.has_post
                  /\ processed.t = "list" /\ field \notin KeptLists
                 THEN FirstOrEmpty(processed.l)
                 ELSE processed
  IN IF final.t = "list" \/ Truthy(final.s) THEN final ELSE Str(EmptyText)

\* lines 1133-1176: the next field's elements are selected; a field skipped
\* for m3u8_mode or without elements is done with
ExSelect ==
  /\ call.at = "select"
  /\ call.i <= Len(call.selectors)
  /\ LET e == call.selectors[call.i]
         elements == Select(e, call.driver)
     IN call' =
          IF e.field = "download_url" /\ call.m3u8_mode
            THEN [call EXCEPT !.i = @ + 1]
          ELSE IF elements = <<>>
            THEN [call EXCEPT !.i = @ + 1,
                              !.data = Store(@, e.field, Str(EmptyText))]
          ELSE [call EXCEPT !.at = "value", !.elements = elements]
  /\ UNCHANGED <<crawl, fname, match>>

\* lines 1178-1251: the field's value is computed and stored
ExValue ==
  /\ call.at = "value"
  /\ LET e == call.selectors[call.i]
     IN call' = [call EXCEPT
                   !.at = "select", !.i = @ + 1, !.elements = <<>>,
                   !.data = Store(@, e.field,
                                  FieldValue(e.field, e.config,
                                             call.elements))]
  /\ UNCHANGED <<crawl, fname, match>>

\* line 1253
ExReturn ==
  /\ call.at = "select"
  /\ call.i > Len(call.selectors)
  /\ call' = [call EXCEPT !.at = "returned"]
  /\ UNCHANGED <<crawl, fname, match>>

NextExtract == ExSelect \/ ExValue \/ ExReturn

SpecExtract == InitExtract /\ [][NextExtract]_vars

\* ------------------------------------------------------ finalize_metadata
\* A category entry: its words in lower case, the casing of its letters
\* ("lower", "title": each word capitalised, "upper"), whether its words are
\* separated by more than one blank, and whether it starts with '#'.
Term(w, casing, gap, hash) ==
  [w |-> w, casing |-> casing, gap |-> gap, hash |-> hash]

\* ''
EmptyTerm == Term("", "lower", FALSE, FALSE)

\* the number of words text.split() gives
Words(t) ==
  IF t.w = "jane doe" THEN 2 ELSE IF t.w # "" \/ t.hash THEN 1 ELSE 0

\* if actor / if studio / if tag: the empty string is dropped
TruthyTerm(t) == t.w # "" \/ t.hash

\* str.lstrip('#')
lstrip_hash(t) == [t EXCEPT !.hash = FALSE]

\* str.lower(): the blanks stay as they are
term_lower(t) == [t EXCEPT !.casing = "lower"]

\* re.search(r'[a-z][A-Z]|[A-Z][a-z]', text)
HasMixedCase(t) == t.w # "" /\ t.casing = "title"

\* lines 1903-1932: the words of uppercase_list are written in capitals
custom_title_case(text, uppercase_list, preserve_mixed_case) ==
  IF ~TruthyTerm(text) THEN text
  ELSE IF /\ preserve_mixed_case
          /\ HasMixedCase(text)
          /\ ~(text.w \in uppercase_list /\ ~text.gap /\ ~text.hash)
    THEN text
  ELSE IF Words(text) = 0 THEN text
  ELSE [text EXCEPT
          !.gap = FALSE,
          !.casing = IF Words(text) = 1 /\ text.w \in uppercase_list /\ ~text.hash
                       THEN "upper"
                     ELSE IF ~preserve_mixed_case \/ Words(text) > 1
                       THEN "title"
                     ELSE text.casing]

\* [x.lstrip('#') for x in final_metadata.get(key, []) if x]
RECURSIVE Normalized(_)
Normalized(l) ==
  IF l = <<>> THEN <<>>
  ELSE (IF TruthyTerm(Head(l)) THEN <<lstrip_hash(Head(l))>> ELSE <<>>)
         \o Normalized(Tail(l))

\* set(x.lower() for x in l)
LowerSet(l) == {term_lower(l[i]) : i \in 1..Len(l)}

\* [x for x in l if x.lower() not in seen]
RECURSIVE NotIn(_, _)
NotIn(l, seen) ==
  IF l = <<>> THEN <<>>
  ELSE (IF term_lower(Head(l)) \in seen THEN <<>> ELSE <<Head(l)>>)
         \o NotIn(Tail(l), seen)

\* [custom_title_case(x, uppercase_list, preserve_mixed_case) for x in l]
Capitalized(l, uppercase_list, preserve_mixed_case) ==
  [i \in 1..Len(l) |-> custom_title_case(l[i], uppercase_list, preserve_mixed_case)]

\* lines 1957-1960: a value that is there and not '' is capitalised, 'studio'
\* after lstrip('#'); the entries have no blanks for strip() to remove
OneValue(v, strip_hash, uppercase_list, preserve_mixed_case) ==
  IF v = <<>> \/ ~TruthyTerm(v[1]) THEN v
  ELSE <<custom_title_case(IF strip_hash THEN lstrip_hash(v[1]) ELSE v[1],
                           uppercase_list, preserve_mixed_case)>>

\* the entries a page gives for each category
ActorTerms ==
  {Term("jane doe", "title", FALSE, FALSE), Term("jane doe", "lower", TRUE, FALSE),
   Term("acme", "lower", FALSE, TRUE), EmptyTerm}

StudioTerms ==
  {Term("acme", "title", FALSE, FALSE), Term("jane doe", "upper", FALSE, FALSE),
   Term("", "lower", FALSE, TRUE)}

TagTerms ==
  {Term("jane doe", "lower", FALSE, FALSE), Term("comedy", "title", FALSE, TRUE),
   Term("acme", "upper", FALSE, FALSE), Term("jane doe", "title", TRUE, FALSE)}

\* the lists of general_config: the words they name
CaseOverrides == {{}, {"acme"}}

TagCaseOverrides == {{}, {"comedy"}}

\* 'title' and 'studio' of the metadata: no entry when the key is missing
TitleValues == {<<>>, <<Term("jane doe", "lower", TRUE, FALSE)>>}

StudioValues == {<<>>, <<Term("acme", "lower", FALSE, TRUE)>>}

InitFinalize ==
  /\ InitWith({BaseCfg})
  /\ fname = [at |-> "idle"]
  /\ match = [at |-> "idle"]
  /\ \E a \in {<<>>} \cup SeqsUpTo(ActorTerms, MaxElements - 1),
        s \in {<<>>} \cup SeqsUpTo(StudioTerms, MaxElements - 1),
        t \in {<<>>} \cup SeqsUpTo(TagTerms, MaxElements - 1),
        co \in CaseOverrides, tco \in TagCaseOverrides,
        single \in {1, 2} :
       call = [fn |-> "finalize_metadata", at |-> "normalize",
               metadata |-> [actors |-> a, studios |-> s, tags |-> t,
                             title |-> IF single = 1 THEN <<>>
                                       ELSE CHOOSE v \in TitleValues : v # <<>>,
                             studio |-> IF single = 1 THEN <<>>
                                        ELSE CHOOSE v \in StudioValues : v # <<>>],
               case_overrides |-> co, tag_overrides |-> co \cup tco,
               actors |-> <<>>, studios |-> <<>>, tags |-> <<>>,
               final_metadata |-> [actors |-> a, studios |-> s, tags |-> t,
                                   title |-> <<>>, studio |-> <<>>]]

\* lines 1940-1945: the copy, the three lists without '' and without '#'
FmNormalize ==
  /\ call.at = "normalize"
  /\ call.fn = "finalize_metadata"
  /\ call' = [call EXCEPT
       !.at = "deduplicate",
       !.final_metadata = call.metadata,
       !.actors = Normalized(call.metadata.actors),
       !.studios = Normalized(call.metadata.studios),
       !.tags = Normalized(call.metadata.tags)]
  /\ UNCHANGED <<crawl, fname, match>>

\* lines 1948-1951: Actors > Studios > Tags
FmDeduplicate ==
  /\ call.at = "deduplicate"
  /\ call.fn = "finalize_metadata"
  /\ LET actors_lower == LowerSet(call.actors)
         studios == NotIn(call.studios, actors_lower)
         studios_lower == LowerSet(studios)
     IN call' = [call EXCEPT
          !.at = "capitalize",
          !.studios = studios,
          !.tags = NotIn(call.tags, actors_lower \cup studios_lower)]
  /\ UNCHANGED <<crawl, fname, match>>

\* lines 1954-1962
FmCapitalize ==
  /\ call.at = "capitalize"
  /\ call.fn = "finalize_metadata"
  /\ call' = [call EXCEPT
       !.at = "returned",
       !.final_metadata =
          [actors |-> Capitalized(call.actors, call.case_overrides, TRUE),
           studios |-> Capitalized(call.studios, call.case_overrides, TRUE),
           tags |-> Capitalized(call.tags, call.tag_overrides, FALSE),
           title |-> OneValue(call.final_metadata.title, FALSE,
                              call.case_overrides, FALSE),
           studio |-> OneValue(call.final_metadata.studio, TRUE,
                               call.case_overrides, TRUE)]]
  /\ UNCHANGED <<crawl, fname, match>>

NextFinalize == FmNormalize \/ FmDeduplicate \/ FmCapitalize

SpecFinalize == InitFinalize /\ [][NextFinalize]_vars

\* --------------------------------------------------------------- returns
\* main leaves its try block: the except clause of the cause (cleanup, then
\* sys.exit), then the finally clause (handle_vpn stop, cleanup)
\* ss, st: the sessions and the stored one at that moment
LeaveMain(cause, ss, st) ==
  /\ pc' = "exit"
  /\ exitCause' = cause
  /\ exitStatus' = ExitStatus(cause)
  /\ vpnStopRun' = TRUE
  /\ sessions' = cleanup(ss, st)
  /\ selenium_driver' = st
  /\ UNCHANGED <<list_driver, vp_driver>>

\* variant: the "if success: break" is missing
ModeReturn_no_break(s) ==
  /\ success' = s
  /\ IF cfg.entry = "url_nomatch" /\ modeIdx < Len(ModeOrder)
       THEN /\ pc' = "try_mode"
            /\ modeIdx' = modeIdx + 1
            /\ fallbackCalled' = fallbackCalled
       ELSE /\ pc' = "done"
            /\ modeIdx' = modeIdx
            /\ fallbackCalled' = (cfg.entry = "url_nomatch" /\ ~s)

\* A mode of process_url has finished with result s.  In the fallback loop
\* a success breaks out; a failure moves on to the next declared mode and,
\* after the last one, to process_fallback_download.
ModeReturn(s) ==
  /\ success' = s
  /\ IF cfg.entry = "url_nomatch" /\ ~s /\ modeIdx < Len(ModeOrder)
       THEN /\ pc' = "try_mode"
            /\ modeIdx' = modeIdx + 1
            /\ fallbackCalled' = fallbackCalled
       ELSE /\ pc' = "done"
            /\ modeIdx' = modeIdx
            /\ fallbackCalled' = (cfg.entry = "url_nomatch" /\ ~s)

\* process_list_page has returned (next, newpage, s) to its page loop
ListReturn(next, newpage, s) ==
  /\ url' = next
  /\ page_num' = newpage
  /\ video_offset' = OffsetAfterPage(video_offset)
  /\ state_set' = IF cfg.entry = "multi_list" THEN load_state(stateFile)
                  ELSE state_set
  /\ once_set' = once_set
  /\ IF next # "none"
       THEN /\ pc' = "list_fetch"
            /\ success' = (success \/ s)
            /\ UNCHANGED <<modeIdx, fallbackCalled>>
       ELSE ModeReturn(success \/ s)

\* process_video_page has returned r to its caller
VpReturn(r) ==
  /\ cur' = "-"
  /\ vsucc' = FALSE
  /\ dl' = "-"
  /\ finAtCall' = "none"
  /\ trav' = "-"
  /\ IF trav = "mode"
       THEN ModeReturn(r) /\ UNCHANGED <<psucc, idx>>
       ELSE /\ pc' = (IF trav = "list" THEN "list_item" ELSE "rss_item")
            /\ psucc' = (psucc \/ r)
            /\ idx' = idx + 1
            /\ UNCHANGED <<success, modeIdx, fallbackCalled>>

\* ------------------------------------------------------------ entry points
\* main: handle_single_arg -> process_url, or handle_multi_arg
Main ==
  /\ pc = "main"
  /\ leaf' = NoLeaf
  /\ IF cfg.selenium /\ ~cfg.selenium_available
       THEN \* "this site requires Selenium": sys.exit(1)
            /\ LeaveMain("sys_exit", sessions, selenium_driver)
            /\ UNCHANGED <<url, page_num, video_offset, modeIdx, trav, cur>>
     ELSE IF cfg.entry = "multi_list" /\ cfg.start > 1 /\ cfg.paged = "broken"
       THEN \* construct_url returned None: "while url" never runs
            /\ pc' = "done"
            /\ UNCHANGED <<url, page_num, video_offset, modeIdx, trav, cur,
                           sess, run>>
     ELSE IF cfg.entry \in {"url_list", "multi_list"}
       THEN /\ pc' = "list_fetch"
            /\ url' = "start"
            /\ page_num' = cfg.start
            /\ video_offset' = cfg.offset
            /\ UNCHANGED <<modeIdx, trav, cur, sess, run>>
     ELSE IF cfg.entry = "url_rss"
       THEN /\ pc' = "rss_fetch"
            /\ UNCHANGED <<url, page_num, video_offset, modeIdx, trav, cur,
                           sess, run>>
     ELSE IF cfg.entry = "url_video"
       THEN /\ pc' = "vp_start"
            /\ cur' = "u1"
            /\ trav' = "mode"
            /\ UNCHANGED <<url, page_num, video_offset, modeIdx, sess, run>>
     ELSE /\ pc' = "try_mode"
          /\ modeIdx' = 1
          /\ UNCHANGED <<url, page_num, video_offset, trav, cur, sess, run>>
  /\ UNCHANGED <<cfg, items, idx, psucc, success, vsucc, dl, state_set, once_set,
                 stateFile, fs, handled, lastFetched, nFetch, runFetch,
                 finAtCall, nextSrc, fallbackCalled, attempted, pubdate,
                 fnvars>>

\* process_url, no mode matched: one turn of "for mode_name in available_modes"
TryMode ==
  /\ pc = "try_mode"
  /\ leaf' = NoLeaf
  /\ LET m == ModeOrder[modeIdx] IN
       IF m = "video"
         THEN /\ pc' = "vp_start"
              /\ cur' = TopUrl
              /\ trav' = "mode"
              /\ UNCHANGED <<url, page_num, video_offset, success, lastFetched,
                             nFetch>>
       ELSE IF m = "rss"
         THEN /\ pc' = "rss_fetch"
              /\ UNCHANGED <<url, page_num, video_offset, success, lastFetched,
                             nFetch, cur, trav>>
       ELSE /\ pc' = "list_fetch"
            /\ url' = "start"
            /\ page_num' = cfg.start
            /\ video_offset' = cfg.offset
            /\ success' = FALSE
            /\ lastFetched' = 0
            /\ nFetch' = 0
            /\ UNCHANGED <<cur, trav>>
  /\ attempted' = Append(attempted, ModeOrder[modeIdx])
  /\ UNCHANGED <<cfg, modeIdx, items, idx, psucc, vsucc, dl, state_set, once_set,
                 stateFile, fs, handled, runFetch, finAtCall, nextSrc,
                 fallbackCalled, pubdate, sess, run, fnvars>>

\* ------------------------------------------------------------ list pages
\* the page numbers of a traversal the model tells apart: the ones an
\* uncapped traversal of a site that wraps reaches beyond them are one value
PagesFollowed == SitePages + 2

Followed(p) == IF p > PagesFollowed THEN PagesFollowed + 1 ELSE p

\* process_list_page up to the item loop: fetch, container, items
ListFetch ==
  /\ pc = "list_fetch"
  /\ leaf' = NoLeaf
  /\ lastFetched' = page_num
  \* the fetches of the pages told apart are counted
  /\ nFetch' = IF page_num <= PagesFollowed THEN nFetch + 1 ELSE nFetch
  /\ runFetch' = IF runFetch < 2 THEN runFetch + 1 ELSE 2
  /\ \E usable \in BOOLEAN, init_ok \in BOOLEAN,
        r \in {"fetch_failed", "no_container", "no_items", "ok"} :
       LET g == IF cfg.selenium
                  THEN get_selenium_driver(sessions, selenium_driver, FALSE,
                                           usable, init_ok)
                  ELSE [sessions |-> sessions,
                        selenium_driver |-> selenium_driver, driver |-> 0]
       IN
       /\ sessions' = g.sessions
       /\ selenium_driver' = g.selenium_driver
       \* fetch_page returns None when selenium is asked for without a driver
       /\ (cfg.selenium /\ g.driver = 0) => r = "fetch_failed"
       /\ IF r = "ok"
            THEN /\ page_num <= SitePages \/ cfg.wrap
                 /\ \E its \in SeqsUpTo(cfg.site \cup {NoUrl}, MaxItems) :
                      items' = its
                 /\ idx' = 1
                 /\ psucc' = FALSE
                 /\ pc' = "list_item"
                 /\ list_driver' = g.driver
                 /\ UNCHANGED <<url, page_num, video_offset, state_set, once_set,
                                success, modeIdx, fallbackCalled>>
            ELSE /\ ListReturn(PageFailure.next, PageFailure.page,
                            PageFailure.ok)
                 /\ list_driver' = 0
                 /\ UNCHANGED <<items, idx, psucc>>
  /\ UNCHANGED <<cfg, trav, cur, vsucc, dl, stateFile, fs, handled,
                 finAtCall, nextSrc, attempted, pubdate, vp_driver, run,
                 fnvars>>

\* variant: the item at the offset is skipped as well
BeforeOffset_inclusive(i, offset) == offset > 0 /\ i <= offset

\* if video_offset > 0 and i < video_offset: continue
BeforeOffset(i, offset) == offset > 0 /\ i < offset

\* one turn of "for i, video_element in enumerate(video_elements, 1)"
ListItem ==
  /\ pc = "list_item"
  /\ leaf' = NoLeaf
  /\ idx <= Len(items)
  /\ LET it == items[idx]
         \* 'url' in video_data, or construct_url(... video=video_key)
         video_url == IF it = BadKey THEN NoneUrl ELSE it
     IN
       IF BeforeOffset(idx, video_offset)
         THEN idx' = idx + 1 /\ UNCHANGED <<pc, psucc, cur, trav>>
       ELSE IF it = NoUrl
         THEN idx' = idx + 1 /\ UNCHANGED <<pc, psucc, cur, trav>>
       ELSE IF ShouldSkip(video_url, state_set, cfg.overwrite, cfg.re_nfo)
         THEN idx' = idx + 1 /\ psucc' = TRUE /\ UNCHANGED <<pc, cur, trav>>
       ELSE /\ pc' = "vp_start"
            /\ cur' = video_url
            /\ trav' = "list"
            /\ UNCHANGED <<idx, psucc>>
  /\ UNCHANGED <<cfg, modeIdx, url, page_num, video_offset, items, success,
                 vsucc, dl, state_set, once_set, stateFile, fs, handled, lastFetched,
                 nFetch, runFetch, finAtCall, nextSrc, fallbackCalled,
                 attempted, pubdate, sess, run, fnvars>>

\* process_list_page after the item loop: the page cap and the next URL
Paginate ==
  /\ pc = "list_item"
  /\ leaf' = NoLeaf
  /\ idx > Len(items)
  /\ IF AtCap(page_num, max_pages(cfg))
       THEN /\ nextSrc' = "cap"
            /\ ListReturn("none", 0, psucc)
       ELSE \E found \in BOOLEAN :
              LET next_url == NextUrl(cfg.paged, cfg.next_page, found) IN
                /\ nextSrc' = next_url
                /\ IF next_url # "none"
                     THEN ListReturn(next_url,
                                     Followed(NextPageNumber(page_num)),
                                     psucc)
                     ELSE ListReturn("none", 0, psucc)
  /\ items' = <<>>
  /\ idx' = 0
  /\ psucc' = FALSE
  \* "if driver: driver.quit()" after the item loop
  /\ sessions' = driver_quit(sessions, list_driver)
  /\ list_driver' = 0
  /\ UNCHANGED <<cfg, trav, cur, vsucc, dl, stateFile, fs, handled, lastFetched,
                 nFetch, runFetch, finAtCall, attempted, pubdate,
                 selenium_driver, vp_driver, run, fnvars>>

\* ------------------------------------------------------------------ feed
\* process_rss_feed up to the entry loop: parse, reverse
RssFetch ==
  /\ pc = "rss_fetch"
  /\ leaf' = NoLeaf
  /\ \E r \in {"bozo", "no_entries", "ok"} :
       IF r = "ok"
         THEN /\ \E entries \in SeqsUpTo((cfg.site \ {BadKey}) \cup {NoUrl},
                                         MaxItems) :
                   /\ items' = Reverse(entries)
                   /\ \E dates \in FeedDates(cfg.feed, Len(entries)) :
                        pubdate' = Reverse(dates)
              /\ idx' = 1
              /\ psucc' = FALSE
              /\ pc' = "rss_item"
              /\ UNCHANGED <<success, modeIdx, fallbackCalled>>
         ELSE /\ ModeReturn(FALSE)
              /\ UNCHANGED <<items, idx, psucc, pubdate>>
  /\ UNCHANGED <<cfg, trav, url, page_num, video_offset, cur, vsucc, dl,
                 state_set, once_set, stateFile, fs, handled, lastFetched, nFetch,
                 runFetch, finAtCall, nextSrc, attempted, sess, run, fnvars>>

\* one turn of "for i, entry in enumerate(entries, 1)", or the return
RssItem ==
  /\ pc = "rss_item"
  /\ leaf' = NoLeaf
  /\ IF idx > Len(items)
       THEN /\ ModeReturn(psucc)
            /\ items' = <<>>
            /\ pubdate' = <<>>
            /\ idx' = 0
            /\ psucc' = FALSE
            /\ UNCHANGED <<cur, trav>>
       ELSE LET it == items[idx] IN
         /\ UNCHANGED <<items, pubdate, success, modeIdx, fallbackCalled>>
         /\ IF it = NoUrl
              THEN idx' = idx + 1 /\ UNCHANGED <<pc, psucc, cur, trav>>
            ELSE IF ShouldSkip(it, state_set, cfg.overwrite, cfg.re_nfo)
              THEN idx' = idx + 1 /\ psucc' = TRUE
                   /\ UNCHANGED <<pc, cur, trav>>
            ELSE /\ pc' = "vp_start"
                 /\ cur' = it
                 /\ trav' = "rss"
                 /\ UNCHANGED <<idx, psucc>>
  /\ UNCHANGED <<cfg, url, page_num, video_offset, vsucc, dl, state_set, once_set,
                 stateFile, fs, handled, lastFetched, nFetch, runFetch,
                 finAtCall, nextSrc, attempted, sess, run, fnvars>>

\* ------------------------------------------------------------ leaf page
\* process_video_page up to the download: fetch, ignore list, the share's
\* existence check (with --applystate), an existing file at the final path
VpStart ==
  /\ pc = "vp_start"
  /\ \E usable \in BOOLEAN, init_ok \in BOOLEAN, fetched \in BOOLEAN,
        ignore_matches \in BOOLEAN, conn \in BOOLEAN, written \in BOOLEAN :
       LET g == IF cfg.selenium
                  THEN get_selenium_driver(sessions, selenium_driver, FALSE,
                                           usable, init_ok)
                  ELSE [sessions |-> sessions,
                        selenium_driver |-> selenium_driver, driver |-> 0]
           \* "if driver: driver.quit()" before a return
           quit == driver_quit(g.sessions, g.driver)
       IN
       IF cur = NoneUrl
         THEN \* original_url.split('/') raises AttributeError, which nothing
              \* below main catches
              /\ LeaveMain("exception", g.sessions, g.selenium_driver)
              /\ UNCHANGED <<state_set, once_set, stateFile, fs, cur, vsucc, dl,
                             finAtCall, leaf, trav, psucc, idx, success, modeIdx,
                             fallbackCalled>>
       ELSE
       /\ selenium_driver' = g.selenium_driver
       /\ leaf' = [soup |-> IF fetched THEN "page" ELSE "none",
                   ignore |-> ignore_matches
                                /\ (fetched \/ (cfg.m3u8_mode /\ g.driver # 0))]
       /\ UNCHANGED <<list_driver, run>>
       /\ LET f == fs[cur].fin IN
          \* outside the m3u8 branch "if soup is None: ... return False"
          IF ~fetched /\ ~(cfg.m3u8_mode /\ g.driver # 0)
            THEN /\ VpReturn(FALSE)
                 /\ sessions' = quit /\ vp_driver' = 0
                 /\ UNCHANGED <<state_set, once_set, stateFile, fs>>
          ELSE IF Ignored(FALSE, ignore_matches)
            THEN /\ VpReturn(TRUE)
                 /\ sessions' = quit /\ vp_driver' = 0
                 /\ UNCHANGED <<state_set, once_set, stateFile, fs>>
          ELSE IF cfg.sink = "smb" /\ ~cfg.overwrite
                  /\ file_exists_on_smb(fs[cur].smb, conn)
            THEN /\ IF cfg.apply_state /\ ~is_url_processed(cur, state_set)
                      THEN /\ state_set' = state_set \cup {cur}
                           /\ once_set' = once_set \cup {cur}
                           /\ stateFile' = save_state(stateFile, cur, written)
                      ELSE UNCHANGED <<state_set, once_set, stateFile>>
                 /\ VpReturn(TRUE)
                 /\ sessions' = quit /\ vp_driver' = 0
                 /\ UNCHANGED fs
          ELSE IF ExistingValid(cfg.overwrite, f)
            THEN \* a valid file is already at the final path: no download
                 /\ vsucc' = TRUE
                 /\ pc' = IF cfg.sink = "smb" THEN "vp_manage"
                          ELSE "vp_record"
                 /\ sessions' = g.sessions /\ vp_driver' = g.driver
                 /\ UNCHANGED <<state_set, once_set, stateFile, fs, cur, dl, finAtCall,
                                trav, psucc, idx, success, modeIdx,
                                fallbackCalled>>
          ELSE \* download_video -> download_file
               /\ fs' = IF ~cfg.overwrite /\ f # "none"
                          THEN [fs EXCEPT ![cur].fin = "none"]
                          ELSE fs
               /\ finAtCall' = fs'[cur].fin
               /\ pc' = "dl_backend"
               /\ sessions' = g.sessions /\ vp_driver' = g.driver
               /\ UNCHANGED <<state_set, once_set, stateFile, cur, vsucc, dl, trav,
                              psucc, idx, success, modeIdx, fallbackCalled>>
  /\ UNCHANGED <<cfg, url, page_num, video_offset, items, handled, lastFetched,
                 nFetch, runFetch, nextSrc, attempted, pubdate, fnvars>>

\* download_file: the selected backend runs and writes the hidden temp file
DlBackend ==
  /\ pc = "dl_backend"
  /\ leaf' = NoLeaf
  /\ \E res \in {"ok", "fail", "raise"},
        wrote \in {"keep", "new_ok", "new_bad"} :
       /\ dl' = res
       /\ fs' = IF wrote = "keep" THEN fs
                ELSE [fs EXCEPT ![cur].tmp = wrote]
  /\ pc' = "dl_finish"
  /\ UNCHANGED <<cfg, modeIdx, trav, url, page_num, video_offset, items, idx,
                 psucc, success, cur, vsucc, state_set, once_set, stateFile, handled,
                 lastFetched, nFetch, runFetch, finAtCall, nextSrc,
                 fallbackCalled, attempted, pubdate, sess, run, fnvars>>

\* download_file: probe, then rename or remove; download_video returns
DlFinish ==
  /\ pc = "dl_finish"
  /\ leaf' = NoLeaf
  /\ LET r == download_file(dl, fs[cur].tmp, fs[cur].fin) IN
       /\ fs' = [fs EXCEPT ![cur].tmp = r.tmp, ![cur].fin = r.fin]
       /\ vsucc' = r.ok
       /\ dl' = r.why
       /\ pc' = AfterDownload(r.ok, cfg.sink)
  /\ UNCHANGED <<cfg, modeIdx, trav, url, page_num, video_offset, items, idx,
                 psucc, success, cur, state_set, once_set, stateFile, handled,
                 lastFetched, nFetch, runFetch, finAtCall, nextSrc,
                 fallbackCalled, attempted, pubdate, sess, run, fnvars>>

\* manage_file for the SMB sink: existence check, upload, remove local file
VpManage ==
  /\ pc = "vp_manage"
  /\ leaf' = NoLeaf
  /\ \E conn1 \in BOOLEAN, conn2 \in BOOLEAN, stored \in BOOLEAN :
       IF ~cfg.overwrite /\ file_exists_on_smb(fs[cur].smb, conn1)
         THEN UNCHANGED fs
         ELSE fs' = [fs EXCEPT
                ![cur].smb = upload_to_smb(fs[cur].smb, cfg.overwrite,
                                           conn2, stored),
                ![cur].fin = "none"]
  /\ pc' = "vp_record"
  /\ UNCHANGED <<cfg, modeIdx, trav, url, page_num, video_offset, items, idx,
                 psucc, success, cur, vsucc, dl, state_set, once_set, stateFile,
                 handled, lastFetched, nFetch, runFetch, finAtCall, nextSrc,
                 fallbackCalled, attempted, pubdate, sess, run, fnvars>>

\* process_video_page: record the URL, sleep, return
VpRecord ==
  /\ pc = "vp_record"
  /\ leaf' = NoLeaf
  /\ \E written \in BOOLEAN :
       IF ShouldRecord(vsucc, cur, state_set)
         THEN /\ state_set' = state_set \cup {cur}
              /\ once_set' = once_set \cup {cur}
              /\ stateFile' = save_state(stateFile, cur, written)
         ELSE UNCHANGED <<state_set, once_set, stateFile>>
  /\ handled' = IF vsucc THEN handled \cup {cur} ELSE handled
  \* "if driver: driver.quit()"
  /\ sessions' = driver_quit(sessions, vp_driver)
  /\ vp_driver' = 0
  /\ VpReturn(vsucc)
  /\ UNCHANGED <<cfg, url, page_num, video_offset, items, fs, lastFetched,
                 nFetch, runFetch, nextSrc, attempted, pubdate,
                 selenium_driver, list_driver, run, fnvars>>

\* main: KeyboardInterrupt -> cleanup -> sys.exit(130) -> finally
Interrupt ==
  /\ pc \notin {"done", "exit"}
  /\ leaf' = NoLeaf
  /\ LeaveMain("interrupt", sessions, selenium_driver)
  /\ UNCHANGED <<cfg, modeIdx, trav, url, page_num, video_offset, items, idx,
                 psucc, success, cur, vsucc, dl, state_set, once_set, stateFile, fs,
                 handled, lastFetched, nFetch, runFetch, finAtCall, nextSrc,
                 fallbackCalled, attempted, pubdate, fnvars>>

\* main: the handler returned; finally: handle_vpn stop, cleanup
Finish ==
  /\ pc = "done"
  /\ leaf' = NoLeaf
  /\ LeaveMain("normal", sessions, selenium_driver)
  /\ UNCHANGED <<cfg, modeIdx, trav, url, page_num, video_offset, items, idx,
                 psucc, success, cur, vsucc, dl, state_set, once_set, stateFile, fs,
                 handled, lastFetched, nFetch, runFetch, finAtCall, nextSrc,
                 fallbackCalled, attempted, pubdate, fnvars>>

Next ==
  \/ Main
  \/ TryMode
  \/ ListFetch
  \/ ListItem
  \/ Paginate
  \/ RssFetch
  \/ RssItem
  \/ VpStart
  \/ DlBackend
  \/ DlFinish
  \/ VpManage
  \/ VpRecord
  \/ Interrupt
  \/ Finish

Spec == Init /\ [][Next]_vars

SpecCommit == InitCommit /\ [][Next]_vars

SpecRun == InitRun /\ [][Next]_vars

\* the interpreter goes on executing the program; a KeyboardInterrupt may
\* or may not come
Step ==
  \/ Main \/ TryMode \/ ListFetch \/ ListItem \/ Paginate \/ RssFetch
  \/ RssItem \/ VpStart \/ DlBackend \/ DlFinish \/ VpManage \/ VpRecord
  \/ Finish

SpecWrap == InitWrap /\ [][Next]_vars /\ WF_vars(Step)

TypeOK ==
  /\ pc \in {"main", "try_mode", "list_fetch", "list_item", "rss_fetch",
             "rss_item", "vp_start", "dl_backend", "dl_finish", "vp_manage",
             "vp_record", "done", "exit"}
  /\ state_set \subseteq AllUrls
  /\ \A u \in AllUrls : fs[u].tmp \in Contents /\ fs[u].fin \in Contents

\* =================================================================== claims
NoFlags == ~cfg.overwrite /\ ~cfg.re_nfo

\* download_file has just returned a failure for cur
DownloadFailed ==
  pc = "vp_record" /\ dl \in {"raised", "rejected", "failed", "missing"}

\* C1: a file appears at the final path, or the file there changes, only by
\* the rename in download_file of a hidden temp file that the backend
\* reported complete and that passed the probe.
C1_FinalPathOnlyByProbedRename ==
  [][\A u \in AllUrls :
       (fs'[u].fin # fs[u].fin /\ fs'[u].fin # "none")
         => /\ pc = "dl_finish" /\ u = cur /\ dl = "ok"
            /\ fs[u].tmp = fs'[u].fin
            /\ fs[u].tmp \in {"old_ok", "new_ok"}
            /\ fs'[u].tmp = "none"]_vars

\* C1 witness: a probed temp file was renamed to an empty final path
C1_Witness ==
  /\ pc = "vp_record" /\ dl = "promoted"
  /\ fs[cur].fin = "new_ok" /\ finAtCall = "none"

\* C2 as stated: after a failed download (backend failed or raised, probe
\* rejected) the download is reported failed and neither the hidden temp
\* path nor the final path holds a file.
C2_NoFileAtEitherPath ==
  DownloadFailed
    => ~vsucc /\ fs[cur].tmp = "none" /\ fs[cur].fin = "none"

\* C2 amended: after a failed download the download is reported failed, the
\* hidden temp path is empty and the final path is what it was when
\* download_file was called: empty, or with overwrite set the file that was
\* already there.
C2_NoFileWrittenByFailedDownload ==
  DownloadFailed
    => /\ ~vsucc
       /\ fs[cur].tmp = "none"
       /\ fs[cur].fin = finAtCall
       /\ finAtCall # "none" => cfg.overwrite

\* C2 witness: a rejected probe with an older file at the final path
C2_Witness ==
  pc = "vp_record" /\ dl = "rejected" /\ finAtCall = "old_ok"

\* the artifact of u is on the configured sink
Committed(u) ==
  IF cfg.sink = "smb" THEN fs[u].smb ELSE fs[u].fin \in {"old_ok", "new_ok"}

\* C3 as stated: every URL this run added to the dedup store (set or file)
\* has its validated artifact on the sink.
C3_RecordedOnlyAfterCommit ==
  \A u \in (state_set \cup Range(stateFile)) \ Range(cfg.file0) :
    Committed(u)

C6_CompletedItemsPersisted == handled \subseteq Range(stateFile)

\* C7 as stated: no list page with a page number above the cap is fetched.
C7_NoFetchAboveCap == nFetch >= 1 => lastFetched <= max_pages(cfg)

\* C7 amended: no page after the first page of a traversal has a page
\* number above the cap; the first page is the starting page, whatever the
\* cap, and when it is at or above the cap it is the only page fetched.
C7_NoFetchAboveCapAfterFirst ==
  /\ nFetch = 1 => lastFetched = cfg.start
  /\ nFetch >= 2 => lastFetched <= max_pages(cfg)

\* C7 witness: a traversal of two pages stopped at the cap
C7_Witness ==
  /\ nFetch = 2 /\ lastFetched = max_pages(cfg) /\ nextSrc = "cap"
  /\ cfg.paged = "none" /\ cfg.next_page /\ pc = "done"

\* C8: every page of a traversal after the first is fetched with the page
\* number of the page before it plus one.
C8_PageNumberIncreasesByOne ==
  (pc = "list_fetch" /\ nFetch >= 1) => page_num = lastFetched + 1

\* C8 witness: the third page of a traversal is about to be fetched
C8_Witness == pc = "list_fetch" /\ nFetch = 2 /\ page_num = cfg.start + 2

\* C9 as stated: only the first process_list_page call of the run receives
\* the item offset.
C9_OffsetOnlyOnFirstPageOfRun ==
  (pc = "list_fetch" /\ runFetch >= 1) => video_offset = 0

\* C9 amended: the first page of every list traversal (every list mode the
\* fallback loop attempts) receives the configured item offset, every later
\* page of that traversal receives 0.
C9_OffsetOnlyOnFirstPageOfTraversal ==
  pc = "list_fetch"
    => video_offset = (IF nFetch = 0 THEN cfg.offset ELSE 0)

\* C9 witness: second page of the second list mode of the fallback loop
C9_Witness ==
  /\ cfg.entry = "url_nomatch" /\ cfg.offset > 0 /\ modeIdx = 4
  /\ pc = "list_fetch" /\ nFetch = 1 /\ video_offset = 0

\* C10: below the cap the next URL is the rendered paged template whenever
\* one is configured, and none when it fails to render (the traversal then
\* ends); the next link is used only when no paged template is configured.
C10_TemplateBeforeNextLink ==
  [][(/\ pc = "list_item" /\ idx > Len(items)
      /\ ~(page_num >= max_pages(cfg))
      /\ pc' # "exit")
       => /\ cfg.paged = "ok" => url' = "template" /\ pc' = "list_fetch"
          /\ cfg.paged = "broken" => url' = "none" /\ pc' # "list_fetch"
          /\ url' = "link" => cfg.paged = "none" /\ cfg.next_page]_vars

\* C10 witness: the template failed to render with a next link configured
C10_Witness ==
  /\ cfg.paged = "broken" /\ cfg.next_page /\ nextSrc = "none"
  /\ nFetch = 1 /\ pc = "done"

\* C11 as stated: whatever order the feed lists its entries in, the order in
\* which process_rss_feed handles them (the order of items) is oldest first:
\* the publication times never decrease along it.
C11_FeedProcessedOldestFirst ==
  \A i, j \in 1..Len(pubdate) : i < j => pubdate[i] <= pubdate[j]

\* C12: a failed fetch, a missing container or an empty item list makes
\* process_list_page return (no next URL, no page number, failure) without
\* raising; the page loop ends there (the run is over or the fallback loop
\* goes on to its next mode), the result of the traversal is what the
\* earlier pages made it, and the state file, the files on disk and on the
\* share and the dedup set are as the earlier pages left them (in
\* handle_multi_arg the set is read again from the unchanged state file).
C12_FailedPageEndsTraversalKeepsWork ==
  [][(pc = "list_fetch" /\ pc' \notin {"list_item", "exit"})
       => /\ url' = "none" /\ page_num' = 0
          /\ pc' \in {"done", "try_mode"}
          /\ success' = success
          /\ exitCause' = "-"
          /\ stateFile' = stateFile /\ fs' = fs /\ handled' = handled
          /\ state_set' \subseteq state_set
          /\ Range(stateFile) \subseteq state_set']_vars

\* C12 witness: the second page of a traversal failed after the first page
\* had put u1 on the share and in the state file
C12_Witness ==
  /\ pc = "done" /\ nFetch = 2 /\ lastFetched = cfg.start + 1
  /\ url = "none" /\ page_num = 0 /\ nextSrc \in {"template", "link"}
  /\ fs["u1"].smb /\ stateFile = <<"u1">> /\ success

\* C13: when no mode matched, the modes started so far are the first ones
\* of the declaration order, in that order; the loop is at the start of a
\* mode only while no mode has succeeded (a list mode's result being that of
\* its whole traversal); and when process_url has returned, the fallback
\* handler has been called exactly when the result is a failure, which
\* takes every declared mode to have been tried.
C13_FallbackLoopInDeclarationOrder ==
  cfg.entry = "url_nomatch" =>
    /\ IsPrefix(attempted, ModeOrder)
    /\ (pc = "try_mode" => ~success)
    /\ (pc = "done" => (fallbackCalled <=> ~success))
    /\ (pc = "done" /\ ~success => attempted = ModeOrder)
    /\ (pc \notin {"done", "exit"} => ~fallbackCalled)

\* C13 witness: the first mode, a list traversal of two pages, failed and
\* the second mode, the feed, succeeded by skipping a recorded entry or
\* downloading one; no third mode was started
C13_Witness ==
  /\ cfg.entry = "url_nomatch" /\ pc = "done" /\ success
  /\ attempted = <<"search", "rss">> /\ runFetch = 2 /\ ~fallbackCalled

\* process_video_page is running for an item of a list page
InListItem ==
  trav = "list"
    /\ pc \in {"vp_start", "dl_backend", "dl_finish", "vp_manage", "vp_record"}

\* C14 as stated: whatever happens to one item of a list page (its fetch,
\* its download or its validation fails, or its leaf URL cannot be built),
\* the page goes on: unless the user interrupts, process_video_page comes
\* back to the item loop, which moves to the next item of the same page
\* (and after the last item to the next-page computation).
C14_ItemFailureDoesNotStopPage ==
  [][(InListItem /\ ~InListItem' /\ exitCause' # "interrupt")
       => /\ pc' = "list_item"
          /\ idx' = idx + 1
          /\ items' = items]_vars

\* C15 as stated: an item whose leaf URL construct_url could not build
\* (it returned None) is not handed to process_video_page, and the run does
\* not end with an exception.
C15_UnbuiltLeafNotDispatched ==
  cur # NoneUrl /\ exitCause # "exception"

\* C16 as stated: with an SMB sink and overwrite unset, an item whose file
\* is already on the share never gets as far as the download backend or
\* the upload, and when process_video_page returns for it without an
\* interrupt having ended the run, no file of the item and no entry of the
\* share has changed.
C16_ExistingOnSinkNotDownloaded ==
  [][(/\ pc = "vp_start" /\ cur # NoneUrl
      /\ cfg.sink = "smb" /\ ~cfg.overwrite /\ fs[cur].smb)
       => /\ pc' \notin {"dl_backend", "vp_manage"}
          /\ fs' = fs]_vars

\* the selenium sessions that are running
LiveSessions == {i \in 1..Len(sessions) : sessions[i]}

\* C17: at most one selenium session is running at any time; a step that
\* creates a session leaves the session stored before it (if any) quit and
\* stores the new one; and a list page or a leaf page that goes on with a
\* driver goes on with the stored session, which is running.
C17_AtMostOneLiveSession ==
  [][/\ Cardinality(LiveSessions') <= 1
     /\ Len(sessions') > Len(sessions)
          => /\ Len(sessions') = Len(sessions) + 1
             /\ selenium_driver # 0 => ~sessions'[selenium_driver]
             /\ selenium_driver' = Len(sessions')
     /\ (pc = "list_fetch" /\ list_driver' # 0)
          => list_driver' = selenium_driver' /\ sessions'[list_driver']
     /\ (pc = "vp_start" /\ vp_driver' # 0)
          => vp_driver' = selenium_driver' /\ sessions'[vp_driver']]_vars

\* C17 witness: a leaf page of a list page runs with the second session,
\* created after the first one, which the list page still holds, was quit
C17_Witness ==
  /\ sessions = <<FALSE, TRUE>> /\ selenium_driver = 2
  /\ list_driver = 1 /\ vp_driver = 2
  /\ pc = "dl_backend" /\ trav = "list"

\* C18: the process has exited only through main's except and finally
\* clauses: however the processing block was left (the handler returned,
\* the user interrupted, an exception reached main, a handler called
\* sys.exit), the VPN stop action has been run and the stored selenium
\* session is not running; the status is 130 after an interrupt, 1 after
\* an exception.
C18_TeardownOnEveryExit ==
  /\ pc # "exit" => exitStatus = -1 /\ exitCause = "-"
  /\ pc = "exit" =>
       /\ exitCause \in {"normal", "interrupt", "exception", "sys_exit"}
       /\ vpnStopRun
       /\ selenium_driver # 0 => ~sessions[selenium_driver]
       /\ exitCause = "interrupt" => exitStatus = 130
       /\ exitCause = "exception" => exitStatus = 1

\* C18 witness: the user interrupted a leaf page that was using the stored
\* session; the session was quit on the way out
C18_Witness ==
  /\ pc = "exit" /\ exitCause = "interrupt" /\ exitStatus = 130
  /\ vp_driver = 1 /\ selenium_driver = 1 /\ sessions = <<FALSE>>

\* C19 as stated: every turn of the byte re-trim loop leaves the file name
\* strictly shorter in bytes than it found it (so the loop ends), and the
\* name construct_filename returns is at most 255 bytes long.
C19_RetrimShortensUntilBound ==
  fname.at # "idle" =>
    /\ fname.iter >= 1 => ByteLen(fname.filename) < fname.before
    /\ fname.at = "returned" => ByteLen(fname.filename) <= NameMax

\* the character i of the template t belongs to a {placeholder}
InPlaceholder(t, i) ==
  Cardinality({j \in 1..i : t[j] = "{"})
    > Cardinality({j \in 1..(i - 1) : t[j] = "}"})

\* the literal characters of a template
LiteralChars(t) == Cardinality({i \in 1..Len(t) : ~InPlaceholder(t, i)})

\* the literal segments of a template: its maximal runs of literal characters
LiteralSegments(t) ==
  Cardinality({i \in 1..Len(t) :
                 /\ ~InPlaceholder(t, i)
                 /\ i = 1 \/ InPlaceholder(t, i - 1)})

\* the non-leaf templates (mode, pattern key) that match the URL
TemplateOf(x) == match.modes[x[1]][pattern_keys[x[2]]]

MatchingTemplates ==
  {x \in ModeNames \X DOMAIN pattern_keys :
     /\ TemplateOf(x) # NoPattern
     /\ MatchFrom(rstrip_slash(TemplateOf(x)), 1, full_path(match.path), 1)}

Specificity(t) == <<LiteralSegments(t), LiteralChars(t)>>

Higher(a, b) == a[1] > b[1] \/ (a[1] = b[1] /\ a[2] > b[2])

\* the returned mode is that of a matching template no other matching
\* template outranks, and is the same for every declaration order unless two
\* matching templates have the same two numbers; the numbers are taken of
\* the template as Written(t) gives it
SelectedBySpecificity(Written(_)) ==
  (match.at = "returned" /\ match.same_host) =>
    LET T == MatchingTemplates
        score(x) == Specificity(Written(TemplateOf(x)))
    IN /\ T # {} =>
            \E x \in T : /\ x[1] = match.result
                         /\ \A y \in T : ~Higher(score(y), score(x))
       /\ (\A x, y \in T : x # y => score(x) # score(y)) =>
            \A o \in ModeOrders :
              Returned(LoopAfter(o, match.modes, full_path(match.path),
                                 Len(o) * Len(pattern_keys)),
                       match.video, full_path(match.path)) = match.result

\* C20 as stated: among the matching non-leaf templates the mode of the one
\* with the most literal segments, then the most literal characters, is
\* returned, whatever the declaration order unless two tie on both numbers.
C20_MostSpecificTemplateWins == SelectedBySpecificity(LAMBDA t : t)

\* C20 amended: as above, with both numbers taken of the template without
\* its trailing slashes.
C20_MostSpecificStrippedTemplateWins == SelectedBySpecificity(rstrip_slash)

\* the mode declared second wins over a matching template of the mode
\* declared first that has as many literal segments and fewer characters
C20_Witness ==
  /\ match.at = "returned" /\ match.same_host
  /\ match.result = match.order[2]
  /\ \E x, y \in MatchingTemplates :
       /\ x[1] = match.order[1] /\ y[1] = match.order[2]
       /\ LiteralSegments(rstrip_slash(TemplateOf(x)))
            = LiteralSegments(rstrip_slash(TemplateOf(y)))
       /\ LiteralChars(rstrip_slash(TemplateOf(x)))
            < LiteralChars(rstrip_slash(TemplateOf(y)))

\* exactly the templates x and y match, and they belong to different modes
OnlyMatches(x, y) == MatchingTemplates = {x, y} /\ x[1] # y[1]

DropLeadingWww(host) ==
  IF Len(host) >= Len(Www) /\ SubSeq(host, 1, Len(Www)) = Www
    THEN SubSeq(host, Len(Www) + 1, Len(host))
    ELSE host

\* the URL's host is the base host, a leading "www." apart
HostMatches ==
  DropLeadingWww(match.host) = DropLeadingWww(match.base_host)

\* the leaf template matches the URL
VideoMatches ==
  /\ match.video # NoPattern
  /\ MatchFrom(rstrip_slash(match.video), 1, full_path(match.path), 1)

\* C22: the leaf mode is returned exactly when the host matches, no non-leaf
\* template matches and the leaf template matches; with a matching non-leaf
\* template a non-leaf mode is returned; a URL of another host (a leading
\* "www." apart) is never matched.
C22_LeafOnlyAsLastResort ==
  match.at = "returned" =>
    /\ match.result = "video"
         <=> (HostMatches /\ MatchingTemplates = {} /\ VideoMatches)
    /\ (HostMatches /\ MatchingTemplates # {}) => match.result \in ModeNames
    /\ ~HostMatches => match.result = "None"

\* the placeholder names of a template
Placeholders(t) ==
  {SubSeq(t, i + 1, WildEnd(t, i) - 1) : i \in {k \in 1..Len(t) : t[k] = "{"}}

\* the non-empty runs of characters of a path
Runs(p) == {SubSeq(p, a, b) : a \in 1..Len(p), b \in 1..Len(p)} \ {<<>>}

\* a run of digits / a run without '/', '?', '&', '#'
AllDigits(v) == \A k \in 1..Len(v) : v[k] \in {"1"}

NoSeparator(v) == \A k \in 1..Len(v) : v[k] \notin {"/", "?", "&", "#"}

\* the values a placeholder may take: digits for page, no separator otherwise
Admissible(name, v) ==
  /\ v # <<>>
  /\ IF name = <<"p", "a", "g", "e">> THEN AllDigits(v) ELSE NoSeparator(v)

\* the template from its character i on, every placeholder replaced by the
\* value the binding b gives it
RECURSIVE Render(_, _, _)
Render(t, i, b) ==
  IF i > Len(t) THEN <<>>
  ELSE IF t[i] = "{"
    THEN b[SubSeq(t, i + 1, WildEnd(t, i) - 1)]
           \o Render(t, WildEnd(t, i) + 1, b)
  ELSE <<t[i]>> \o Render(t, i + 1, b)

\* some admissible binding of the placeholders renders t to exactly p
RendersTo(t, p) ==
  \E b \in [Placeholders(t) -> Runs(p)] :
    /\ \A n \in Placeholders(t) : Admissible(n, b[n])
    /\ Render(t, 1, b) = p

\* C23: a compiled template without '?' or '&' matches a path exactly when
\* the whole path is the template with every page placeholder replaced by a
\* non-empty run of digits and every other placeholder by a non-empty run
\* without '/', '?', '&', '#'; the groups of a match are such values.
C23_PlaceholdersMatchAdmissibleRuns ==
  match.pattern # NoPattern =>
    LET t == rstrip_slash(match.pattern)
        p == full_path(match.path)
    IN /\ ~HasQuery(t) => (match.found <=> RendersTo(t, p))
       /\ match.found =>
            /\ \A g \in match.extracted : Admissible(g[1], g[2])
            /\ ~HasQuery(t) =>
                 Render(t, 1, [n \in Placeholders(t) |->
                                 (CHOOSE g \in match.extracted : g[1] = n)[2]])
                   = p

\* /{x}/{page}/ has matched /a/1 with x = a and page = 1
C23_Witness ==
  /\ match.pattern
       = <<"/", "{", "x", "}", "/", "{", "p", "a", "g", "e", "}", "/">>
  /\ match.path = <<"/", "a", "/", "1">>
  /\ match.found
  /\ match.extracted = {<< <<"x">>, <<"a">> >>,
                        << <<"p", "a", "g", "e">>, <<"1">> >>}

\* the first arithmetic placeholder of the template construct_url was given
FirstArith ==
  call.template[CHOOSE i \in ArithAt(call.template) :
                  \A j \in ArithAt(call.template) : i <= j]

\* the template has one arithmetic placeholder and no other placeholder
OnlyArith ==
  /\ Cardinality(ArithAt(call.template)) = 1
  /\ \A i \in 1..Len(call.template) :
       call.template[i].kind = "field" => i \in ArithAt(call.template)

\* the template with its arithmetic placeholder replaced by chars
Arithmetic(chars) ==
  urljoin(BaseUrl,
          Format(ReplaceAll(call.template, FirstArith, chars), <<>>))

\* C24: a template whose only placeholder is {page +/- k} is rendered with
\* the integer page +/- k when page is bound to an integer, and with the
\* placeholder removed, a URL still being produced, when page is not
\* supplied or supplied as nothing.
C24_ArithmeticPlaceholderRendered ==
  (call.at = "returned" /\ call.fn = "construct_url" /\ OnlyArith) =>
    LET bound == "page" \in DOMAIN call.kwargs
        page == call.kwargs["page"]
        sign == IF FirstArith.op = "+" THEN 1 ELSE -1
    IN /\ (bound /\ page.t = "int") =>
            /\ call.ok
            /\ call.full_url
                 = Arithmetic(Decimal(page.int + sign * FirstArith.k))
       /\ (~bound \/ page.t = "none") =>
            /\ call.ok
            /\ call.full_url = Arithmetic(<<>>)

\* what the probe read: the size (the file's own when ffprobe gives none)
\* and the duration in half seconds (0 when ffprobe gives none)
ProbedSize == IF call.has_size THEN call.size ELSE call.on_disk

ProbedDuration == IF call.has_duration THEN call.probed ELSE 0

\* C25: get_video_metadata rejects an artifact exactly when the probe fails
\* or the duration is above 0 and size / duration is below 10240 bytes per
\* second; with duration 0 or no duration a probed artifact is accepted
\* whatever its size.
C25_RejectedExactlyWhenProbeFailsOrTooSmall ==
  (call.at = "returned" /\ call.fn = "get_video_metadata") =>
    /\ call.result = "None" <=>
         \/ call.ffprobe # "ok"
         \/ /\ ProbedDuration > 0
            /\ ProbedSize * 2 < 10240 * ProbedDuration
    /\ (call.ffprobe = "ok" /\ ProbedDuration = 0) => call.result = "info"

\* an empty file with no duration has been accepted
C25_Witness ==
  /\ call.at = "returned" /\ call.fn = "get_video_metadata"
  /\ call.ffprobe = "ok" /\ ~call.has_duration
  /\ call.has_size /\ call.size = 0
  /\ call.result = "info"

\* the first entry of the selector map and the elements it selects
FirstField == call.selectors[1]

Selected == Select(FirstField, call.driver)

\* the texts of the selected elements, stripped, the empty ones left out
MatchedTexts == StrippedTexts(Selected)

\* a multi-value field extracted from the elements' texts, not from an
\* attribute
TextMultiValue ==
  /\ call.at = "returned" /\ call.fn = "extract_data"
  /\ FirstField.field \in {"tags", "actors", "producers", "studios"}
  /\ ~(FirstField.config.shape = "dict" /\ FirstField.config.attribute)
  /\ Selected # <<>>

\* v holds, in their order, the first occurrences of the texts of T, one for
\* each text up to case
FirstOccurrences(v, T) ==
  /\ \A a, b \in 1..Len(v) : lower(v[a]) = lower(v[b]) => a = b
  /\ \A i \in 1..Len(T) : \E a \in 1..Len(v) : lower(v[a]) = lower(T[i])
  /\ \E f \in [1..Len(v) -> 1..Len(T)] :
       /\ \A a, b \in 1..Len(v) : a < b => f[a] < f[b]
       /\ \A a \in 1..Len(v) :
            /\ v[a] = T[f[a]]
            /\ \A j \in 1..(f[a] - 1) : lower(T[j]) # lower(T[f[a]])

\* C26: for a multi-value field without post-processing extract_data
\* returns the matched texts deduplicated without regard to case, in the
\* order and the casing of their first occurrence; deduplicating the result
\* again changes nothing.
C26_MultiValueDeduplicated ==
  (TextMultiValue /\ ~FirstField.config.has_post) =>
    LET value == call.data[FirstField.field]
    IN /\ value.t = "list"
       /\ FirstOccurrences(value.l, MatchedTexts)
       /\ Deduplicated(value.l) = value.l

\* C27: each of tags, actors, producers and studios is returned as a list
\* whenever an element matches and no post-processing step collapses it,
\* with string and with object selectors; without post-processing it is the
\* list of the matched texts.
C27_FourFieldsKeptAsLists ==
  (TextMultiValue /\ FirstField.config.steps \in {<<>>, <<"replace">>}) =>
    LET value == call.data[FirstField.field]
    IN /\ value.t = "list"
       /\ ~FirstField.config.has_post =>
            \A i \in 1..Len(MatchedTexts) :
              \E a \in 1..Len(value.l) :
                lower(value.l[a]) = lower(MatchedTexts[i])

\* the selector of an entry matches no element: every selector it tries
\* finds nothing, the iframe lookup fails, or the configuration has no
\* selector at all
Unmatched(e) ==
  \/ e.config.shape = "other"
  \/ e.config.shape = "dict" /\ e.config.selector = "absent"
       /\ ~e.config.attribute
  \/ e.config.shape = "dict" /\ e.config.iframe /\ call.driver
       /\ ~e.iframe_ok
  \/ /\ e.config.shape = "str" \/ e.config.selector # "absent"
     /\ \A n \in 1..Len(e.results) : e.results[n] = <<>>

\* the entry is left out because the site is in m3u8 mode
Skipped(e) == e.field = "download_url" /\ call.m3u8_mode

\* C29 as stated: every field whose selector matches no element is stored
\* as the empty string, and every field of the map is evaluated.
C29_UnmatchedFieldIsEmptyString ==
  (call.at = "returned" /\ call.fn = "extract_data") =>
    \A n \in 1..Len(call.selectors) :
      LET e == call.selectors[n]
      IN Unmatched(e) =>
           /\ e.field \in DOMAIN call.data
           /\ call.data[e.field] = Str(EmptyText)

\* C29 amended: as stated for every field but download_url in m3u8 mode,
\* which is left out of the result; every other field of the map has a
\* value in the result.
C29_UnmatchedFieldIsEmptyUnlessSkipped ==
  (call.at = "returned" /\ call.fn = "extract_data") =>
    \A n \in 1..Len(call.selectors) :
      LET e == call.selectors[n]
      IN /\ Skipped(e) <=> e.field \notin DOMAIN call.data
         /\ (Unmatched(e) /\ ~Skipped(e)) =>
              call.data[e.field] = Str(EmptyText)

\* a failed iframe lookup left its field empty and the next field, whose
\* selector matches, has its value
C29_Witness ==
  /\ call.at = "returned" /\ call.fn = "extract_data"
  /\ FirstField.config.iframe /\ call.driver /\ ~FirstField.iframe_ok
  /\ FirstField.results[1] # <<>>
  /\ FirstField.field = "title"
  /\ call.data["title"] = Str(EmptyText)
  /\ call.data["date"] = Str(Text("jane", TRUE, FALSE))

\* ---------------------------------------------------------------- C28
Finalized == call.at = "returned" /\ call.fn = "finalize_metadata"

SameIgnoringCase(a, b) == term_lower(a) = term_lower(b)

Disjoint(l, m) ==
  \A i \in 1..Len(l), j \in 1..Len(m) : ~SameIgnoringCase(l[i], m[j])

\* l is m without some of its entries, the others in m's order
IsSubsequence(l, m) ==
  \E f \in [1..Len(l) -> 1..Len(m)] :
    /\ \A i \in 1..Len(l) : l[i].w = m[f[i]].w
    /\ \A i, j \in 1..Len(l) : i < j => f[i] < f[j]

\* C28: after finalize_metadata no Studio equals an Actor and no Tag equals
\* an Actor or a surviving Studio, without regard to case; every Actor of the
\* input is kept, and the entries of each list are in their original order.
C28_CategoriesPairwiseDisjoint ==
  Finalized =>
    LET out == call.final_metadata
        in == call.metadata
    IN /\ Disjoint(out.studios, out.actors)
       /\ Disjoint(out.tags, out.actors)
       /\ Disjoint(out.tags, out.studios)
       /\ Len(out.actors) = Len(Normalized(in.actors))
       /\ IsSubsequence(out.actors, in.actors)
       /\ IsSubsequence(out.studios, in.studios)
       /\ IsSubsequence(out.tags, in.tags)

\* ---------------------------------------------------------------- C30
\* the item loop of the first list page of a traversal is at an item
AtItemOfFirstPage == pc = "list_item" /\ idx <= Len(items) /\ nFetch = 1

\* C30: on the first page of a traversal with item offset k, the item loop
\* passes over an item without looking at it exactly when k > 0 and the
\* item's 1-based position is below k; every other item is considered, in
\* document order: one that has a URL is either counted as already handled or
\* handed to process_video_page.  With k = 0 or k = 1 nothing is passed over.
C30_OffsetSkipsExactlyEarlierItems ==
  [][(AtItemOfFirstPage /\ pc' # "exit")
       => IF video_offset > 0 /\ idx < video_offset
            THEN /\ idx' = idx + 1
                 /\ UNCHANGED <<pc, psucc, cur, trav, items, video_offset>>
            ELSE /\ UNCHANGED <<items, video_offset>>
                 /\ \/ /\ items[idx] = NoUrl
                       /\ idx' = idx + 1
                       /\ UNCHANGED <<pc, psucc>>
                    \/ /\ items[idx] # NoUrl
                       /\ idx' = idx + 1
                       /\ psucc'
                       /\ pc' = pc
                    \/ /\ items[idx] # NoUrl
                       /\ idx' = idx
                       /\ pc' = "vp_start"
                       /\ trav' = "list"]_vars

\* C30 witness: with offset 2 the first item of the first page, a URL that
\* was never handled, was passed over and the second one is being processed
C30_Witness ==
  /\ pc = "vp_start" /\ trav = "list" /\ nFetch = 1
  /\ video_offset = 2 /\ idx = 2 /\ Len(items) = 2
  /\ items[1] \in cfg.site /\ items[1] \notin state_set
  /\ items[1] \notin handled /\ cur = items[2]

\* ---------------------------------------------------------------- C31
\* the run has left the page loops
Done == pc \in {"done", "exit"}

\* max(1, cap - startPage + 1)
FetchBound(c) ==
  IF max_pages(c) - c.start + 1 > 1 THEN max_pages(c) - c.start + 1 ELSE 1

\* C31: every list traversal ends: the page loop of process_url and of
\* handle_multi_arg terminates on every site with finitely many distinct
\* pages, with a cap (then after at most max(1, cap - startPage + 1)
\* fetches) and without one, whether the next URL comes from the paged
\* template or from a "next" link.
C31_TraversalTerminates ==
  /\ <>Done
  /\ [](max_pages(cfg) # NoCap => nFetch <= FetchBound(cfg))

\* ---------------------------------------------------------------- C32
\* C32: when the leaf page of an item cannot be fetched, in any site
\* configuration (m3u8 mode included), process_video_page abandons the item:
\* it returns failure to its caller, the download pipeline is not entered,
\* no file changes and the dedup store gains no entry.
C32_UnfetchedLeafIsAbandoned ==
  [][(pc = "vp_start" /\ pc' # "exit" /\ leaf'.soup = "none")
       => /\ pc' \notin {"dl_backend", "dl_finish", "vp_manage", "vp_record"}
          /\ trav = "list" => pc' = "list_item" /\ psucc' = psucc
          /\ trav = "rss" => pc' = "rss_item" /\ psucc' = psucc
          /\ trav = "mode" => ~success'
          /\ UNCHANGED <<state_set, stateFile, fs, handled>>]_vars

\* ---------------------------------------------------------------- C33
\* C33: for the SMB sink, manage_file removes the local validated file only
\* once the file is on the share: when the upload fails, the local file is
\* still there after manage_file returns and the item is not reported as
\* committed.
C33_LocalFileKeptUntilOnSink ==
  [][(pc = "vp_manage" /\ pc' # "exit" /\ ~fs'[cur].smb)
       => /\ fs'[cur].fin = fs[cur].fin
          /\ fs'[cur].fin # "none"
          /\ ~vsucc']_vars

\* ---------------------------------------------------------------- C34
\* the path a template addresses for listing id and page p
RECURSIVE PathOf(_, _, _)
PathOf(template, id, p) ==
  IF template = <<>> THEN <<>>
  ELSE LET h == Head(template) IN
       (IF h.kind = "lit" THEN <<h.name>>
        ELSE IF h.name = "search" THEN id
        ELSE IF h.op = "+" THEN Decimal(p + h.k)
        ELSE IF h.op = "-" THEN Decimal(p - h.k)
        ELSE Decimal(p))
         \o PathOf(Tail(template), id, p)

\* C34: in a traversal started from a full listing URL whose mode has a
\* paged template, the next-page URL process_list_page renders carries the
\* identifier the starting URL carried (written with the encoding rules), so
\* it addresses page n+1 of the same listing.
C34_NextPageKeepsIdentifier ==
  (call.at = "returned" /\ call.fn = "next_page"
     /\ call.entry = "process_url")
    => /\ call.ok
       /\ call.full_url =
            urljoin(BaseUrl,
                    PathOf(call.template,
                           Encoded(call.arg.id, call.encoding_rules),
                           call.current_page + 1))

\* ---------------------------------------------------------------- C35
\* the item loop of a list page is at an item with a URL that the offset
\* does not pass over
AtDecision ==
  /\ pc = "list_item" /\ idx <= Len(items)
  /\ ~BeforeOffset(idx, video_offset)
  /\ items[idx] \notin {NoUrl, BadKey}

\* C35: the traversal of handle_multi_arg, which reloads the dedup set from
\* the state file after every page, decides for every item of every page to
\* skip or to process it as the traversal of process_url does, which keeps
\* the set it loaded at the start, whatever the items' outcomes, failed
\* writes of the state file included.
C35_SameDecisionWithAndWithoutReload ==
  AtDecision
    => (ShouldSkip(items[idx], state_set, cfg.overwrite, cfg.re_nfo)
          <=> ShouldSkip(items[idx], once_set, cfg.overwrite, cfg.re_nfo))

\* ---------------------------------------------------------------- C36
\* process_video_page has reached download_video in this step
ReachesDownload ==
  pc = "vp_start" /\ pc' \in {"dl_backend", "vp_manage", "vp_record"}

\* C36: with a file at the final path and overwrite unset, download_video
\* returns success without invoking a backend when the file passes the
\* probe, and deletes it before the backend is invoked when it does not;
\* with overwrite set, a re-download that fails leaves the file that was at
\* the final path as it was.
C36_ExistingFileProbedBeforeDownload ==
  [][/\ (ReachesDownload /\ ~cfg.overwrite /\ fs[cur].fin # "none")
          => IF get_video_metadata(fs[cur].fin)
               THEN pc' # "dl_backend" /\ vsucc' /\ fs' = fs
               ELSE pc' = "dl_backend" /\ fs'[cur].fin = "none"
     /\ (pc \in {"vp_start", "dl_backend", "dl_finish"} /\ cfg.overwrite
           /\ fs[cur].fin # "none" /\ pc' # "exit"
           /\ ~(pc = "dl_finish" /\ vsucc'))
          => fs'[cur].fin = fs[cur].fin]_vars

\* C36 witness: an invalid file at the final path was deleted and the
\* backend is about to run
C36_Witness ==
  /\ pc = "dl_backend" /\ ~cfg.overwrite
  /\ cfg.fs0[cur].fin = "old_bad" /\ fs[cur].fin = "none"

\* ---------------------------------------------------------------- C37
\* C37: within one call of process_video_page the download backend runs at
\* most once: it is started from the beginning of the call only, and a
\* download that failed, raised or was rejected by the probe goes on to the
\* end of the call, which returns failure, without a backend being started
\* again.
C37_BackendAtMostOncePerCall ==
  [][/\ pc' = "dl_backend" => pc \in {"vp_start", "dl_backend"}
     /\ (pc = "dl_backend" /\ pc' # "exit") => pc' = "dl_finish"
     /\ (pc = "dl_finish" /\ pc' # "exit")
          => /\ pc' \in {"vp_manage", "vp_record"}
             /\ dl' \in {"raised", "rejected", "failed", "missing"}
                  => ~vsucc' /\ pc' = "vp_record"
     /\ (pc = "vp_manage" /\ pc' # "exit") => pc' = "vp_record"
     /\ (pc = "vp_record" /\ ~vsucc /\ pc' # "exit")
          => /\ pc' \in {"list_item", "rss_item", "try_mode", "done"}
             /\ trav \in {"list", "rss"} => psucc' = psucc
             /\ trav = "mode" => ~success'
             /\ UNCHANGED <<state_set, stateFile>>]_vars

\* C37 witness: the invalid file of a list item was removed, its download
\* failed and the call has returned failure to the item loop
C37_Witness ==
  /\ pc = "list_item" /\ idx = 2 /\ ~psucc /\ handled = {}
  /\ items[1] \in Urls /\ items[1] \notin state_set
  /\ fs[items[1]].tmp = "none" /\ fs[items[1]].fin = "none"
  /\ nFetch = 1 /\ cfg.sink = "local" /\ ~cfg.overwrite
  /\ cfg.fs0[items[1]].fin = "old_bad"

\* ---------------------------------------------------------------- C38
\* C38: an item whose extracted record matches the ignore list is reported
\* as success and nothing else happens to it: process_video_page returns
\* True without entering the download or the upload, no file appears or
\* changes at a temporary or final path or on the share, and the dedup set
\* and the state file stay as they are.
C38_IgnoredItemSucceedsWithoutEffect ==
  [][(pc = "vp_start" /\ pc' # "exit" /\ leaf'.ignore)
       => /\ pc' \notin {"dl_backend", "dl_finish", "vp_manage", "vp_record"}
          /\ trav = "list" => pc' = "list_item" /\ psucc' /\ idx' = idx + 1
          /\ trav = "rss" => pc' = "rss_item" /\ psucc' /\ idx' = idx + 1
          /\ trav = "mode" => success'
          /\ UNCHANGED <<fs, state_set, stateFile, handled>>]_vars

\* C38 witness: the first item of a list page was ignored and counted as a
\* success
C38_Witness ==
  /\ pc = "list_item" /\ idx = 2 /\ psucc /\ leaf.ignore
  /\ items[1] \notin state_set /\ handled = {} /\ fs = cfg.fs0
  /\ stateFile = cfg.file0

\* extract_data has returned the value of a multi-value field whose texts
\* went through a max_attribute step
MaxAttributeApplied ==
  /\ TextMultiValue
  /\ FirstField.config.has_post
  /\ Len(FirstField.config.steps) = 1
  /\ FirstField.config.steps[1] \in MaxSteps
  /\ MatchedTexts # <<>>

\* C39: the max_attribute step returns the value extracted from the
\* element whose attribute, converted to the step's type, is the highest
\* among the elements the candidate values were extracted from, also when
\* texts were dropped as empty or as duplicates before the step; when none
\* of these elements carries the attribute or a conversion fails, it
\* returns the first value.
C39_MaxAttributePicksValueOfHighest ==
  MaxAttributeApplied =>
    LET type == attr_type(FirstField.config.steps[1])
        values == Deduplicated(MatchedTexts)
        attr(i) == Selected[Origin(Selected, i)].attr
        with == {i \in 1..Len(values) : attr(i) # "None"}
        result == call.data[FirstField.field]
    IN IF with = {} \/ \E i \in with : ~Converts(type, attr(i))
         THEN result = Str(values[1])
         ELSE \E i \in with :
                /\ result = Str(values[i])
                /\ \A j \in with :
                     AttrKey(type, attr(j)) <= AttrKey(type, attr(i))
====
